---------------------------- MODULE Spec2Model ----------------------------
(***************************************************************************)
(* Matchmaking and session engine of PUGG (backend/games/base-game.js,     *)
(* backend/games/connect-four.js, backend/index.js).                       *)
(*                                                                         *)
(* The shared store is Redis: one list per game type (the queue), one key  *)
(* per session and one key per user (the user -> room index).  Every       *)
(* `await redis.<command>` of a handler is one atomic step of the model:   *)
(* the command executes atomically in Redis, and the synchronous code that *)
(* follows it runs to the next await without interruption (Node.js event   *)
(* loop).  Handlers of different requests interleave at their awaits.      *)
(***************************************************************************)
EXTENDS Integers, Sequences, FiniteSets, TLC

\* ------------------------------------------------------------------ bounds
NumUsers == 3
MaxCalls == 4
MaxInFlight == 2
MaxMoveCalls == 3
MaxPlies == 9
MaxResultCalls == 3
MaxStarted == 3
MaxRetryRequests == 2
MaxFourPlies == 3
MaxStampLen == 2
MaxRandomLen == 2

\* --------------------------------------------------------------- constants
\* JavaScript null / a missing Redis key
Null == -1
\* JavaScript undefined (a field the object does not have)
Undefined == -2
\* null in the three-in-a-row state, whose markers are the strings "X" and "O"
NoMark == ""
ROWS == 6
COLS == 7
MinPlayers == 2

Users == 1..NumUsers
Procs == 1..MaxCalls

VARIABLES
    queue,        \* Redis list `connect-four:queue`: sequence of userIds
    sessions,     \* Redis keys `connect-four:session:<roomId>`: the existing rooms -> session
    userSession,  \* Redis keys `user:<userId>:session`: user -> roomId or Null
    nextRoom,     \* number of roomIds generated so far (roomIds are fresh)
    h,            \* the request handlers in flight: proc -> its position and locals
    reqs,         \* history: number of requestMatch calls started per user
    cancels,      \* history: number of cancelMatchmaking calls started per user
    cancelled,    \* history: users whose cancel returned and who have not requested since
    raced,        \* history: <<room, user>> where user's entry was popped during/after a cancel
    mv,           \* the move and leave handlers in flight: proc -> its position and locals
    playersOnResultScreen,  \* Map roomId -> Set of userIds (index.js), the tracked rooms
    resultScreenTimeouts,   \* Map roomId -> timeout (index.js): the rooms with an armed timer
    accepted,     \* history: room -> number of moves answered with the updated session
    rg,           \* rule engine on its own: the game type and gameState played so far
    rv,           \* rule engine on its own: the last call (userId, input, validation)
    rs,           \* the leave-result handlers and timer callbacks in flight
    timerFired,   \* the rooms of resultScreenTimeouts whose timer has fired
    inits,        \* history: room -> number of times its result screen tracking was set up
    stats,        \* Firestore documents users/<userId>: user -> its stats counters
    made          \* room ids on their own: the last roomId generated and what cleanup derived

mmVars == <<h, reqs, cancels, cancelled, raced>>
gameVars == <<mv, playersOnResultScreen, resultScreenTimeouts, inits, accepted, stats>>
ruleVars == <<rg, rv, made>>
resVars == <<rs, timerFired>>
vars == <<queue, sessions, userSession, nextRoom, mmVars, gameVars, ruleVars, resVars>>

\* ------------------------------------------------------------ rule engine
\* ConnectFourGame.createInitialGameState
createInitialGameState(players) ==
    [ board         |-> [r \in 0..(ROWS-1) |-> [c \in 0..(COLS-1) |-> Null]],
      currentPlayer |-> 0,
      players       |-> players,
      finished      |-> FALSE,
      winner        |-> Null,
      isDraw        |-> FALSE ]

\* Array.findIndex over the player list: 0-based, -1 when absent
findIndex(players, userId) ==
    LET at == {i \in 1..Len(players) : players[i] = userId}
    IN IF at = {} THEN -1 ELSE (CHOOSE i \in at : \A j \in at : i <= j) - 1

\* validateMove without its last check (a full column is accepted)
validateMoveNoFullCheck(gameState, userId, column) ==
    IF gameState.finished THEN [valid |-> FALSE, error |-> "Game is finished"]
    ELSE IF findIndex(gameState.players, userId) # gameState.currentPlayer
         THEN [valid |-> FALSE, error |-> "Not your turn"]
    ELSE IF column = Undefined \/ column < 0 \/ column >= COLS
         THEN [valid |-> FALSE, error |-> "Invalid column"]
    ELSE [valid |-> TRUE, error |-> ""]

\* ConnectFourGame.validateMove.  A missing column is undefined: both range
\* comparisons are false and board[0][undefined] is undefined, which !== null.
validateMove(gameState, userId, column) ==
    IF gameState.finished THEN [valid |-> FALSE, error |-> "Game is finished"]
    ELSE IF findIndex(gameState.players, userId) # gameState.currentPlayer
         THEN [valid |-> FALSE, error |-> "Not your turn"]
    ELSE IF column # Undefined /\ (column < 0 \/ column >= COLS)
         THEN [valid |-> FALSE, error |-> "Invalid column"]
    ELSE IF column = Undefined \/ gameState.board[0][column] # Null
         THEN [valid |-> FALSE, error |-> "Column is full"]
    ELSE [valid |-> TRUE, error |-> ""]

\* The four-cell lines in the order ConnectFourGame.checkWinner scans them:
\* horizontal, vertical, diagonal down-right, diagonal down-left.
HorizontalLines ==
    [k \in 1..(ROWS * (COLS - 3)) |->
        LET r == (k - 1) \div (COLS - 3)
            c == (k - 1) % (COLS - 3)
        IN << <<r, c>>, <<r, c + 1>>, <<r, c + 2>>, <<r, c + 3>> >>]
VerticalLines ==
    [k \in 1..((ROWS - 3) * COLS) |->
        LET r == (k - 1) \div COLS
            c == (k - 1) % COLS
        IN << <<r, c>>, <<r + 1, c>>, <<r + 2, c>>, <<r + 3, c>> >>]
DiagonalLines ==
    [k \in 1..((ROWS - 3) * (COLS - 3)) |->
        LET r == (k - 1) \div (COLS - 3)
            c == (k - 1) % (COLS - 3)
        IN << <<r, c>>, <<r + 1, c + 1>>, <<r + 2, c + 2>>, <<r + 3, c + 3>> >>]
AntiDiagonalLines ==
    [k \in 1..((ROWS - 3) * (COLS - 3)) |->
        LET r == (k - 1) \div (COLS - 3)
            c == 3 + ((k - 1) % (COLS - 3))
        IN << <<r, c>>, <<r + 1, c - 1>>, <<r + 2, c - 2>>, <<r + 3, c - 3>> >>]
\* the scan without its last loop
ScanLinesNoAntiDiagonal == HorizontalLines \o VerticalLines \o DiagonalLines
ScanLines == HorizontalLines \o VerticalLines \o DiagonalLines \o AntiDiagonalLines

\* ConnectFourGame.checkWinner: the player of the first uniform line found
checkWinner(board) ==
    LET at(l, i) == board[l[i][1]][l[i][2]]
        hit(l) == at(l, 1) # Null /\ \A i \in 2..4 : at(l, i) = at(l, 1)
        hits == {k \in 1..Len(ScanLines) : hit(ScanLines[k])}
    IN IF hits = {} THEN Null
       ELSE at(ScanLines[CHOOSE k \in hits : \A j \in hits : k <= j], 1)

\* ConnectFourGame.checkGameEnd ({finished: false} has no winner and no isDraw)
checkGameEnd(gameState) ==
    LET winner == checkWinner(gameState.board) IN
    IF winner # Null
    THEN [finished |-> TRUE, winner |-> gameState.players[winner + 1], isDraw |-> FALSE]
    ELSE IF \A c \in 0..(COLS - 1) : gameState.board[0][c] # Null
         THEN [finished |-> TRUE, winner |-> Null, isDraw |-> TRUE]
         ELSE [finished |-> FALSE, winner |-> Undefined, isDraw |-> FALSE]

\* makeMove with the row loop running from row 0 upwards
makeMoveTopRow(gameState, userId, column) ==
    LET empty == {r \in 0..(ROWS - 1) : gameState.board[r][column] = Null}
        board == IF empty = {} THEN gameState.board
                 ELSE LET row == CHOOSE r \in empty : \A x \in empty : r <= x
                      IN [gameState.board EXCEPT ![row][column] = gameState.currentPlayer]
        placed == [gameState EXCEPT !.board = board]
        gameEnd == checkGameEnd(placed)
    IN IF gameEnd.finished
       THEN [placed EXCEPT !.finished = TRUE, !.winner = gameEnd.winner,
                           !.isDraw = gameEnd.isDraw]
       ELSE [placed EXCEPT !.currentPlayer = (gameState.currentPlayer + 1) % 2]

\* makeMove that leaves currentPlayer as it was
makeMoveNoSwitch(gameState, userId, column) ==
    LET empty == {r \in 0..(ROWS - 1) : gameState.board[r][column] = Null}
        board == IF empty = {} THEN gameState.board
                 ELSE LET row == CHOOSE r \in empty : \A x \in empty : x <= r
                      IN [gameState.board EXCEPT ![row][column] = gameState.currentPlayer]
        placed == [gameState EXCEPT !.board = board]
        gameEnd == checkGameEnd(placed)
    IN IF gameEnd.finished
       THEN [placed EXCEPT !.finished = TRUE, !.winner = gameEnd.winner,
                           !.isDraw = gameEnd.isDraw]
       ELSE placed

\* ConnectFourGame.makeMove
makeMove(gameState, userId, column) ==
    LET empty == {r \in 0..(ROWS - 1) : gameState.board[r][column] = Null}
        board == IF empty = {} THEN gameState.board
                 ELSE LET row == CHOOSE r \in empty : \A x \in empty : x <= r
                      IN [gameState.board EXCEPT ![row][column] = gameState.currentPlayer]
        placed == [gameState EXCEPT !.board = board]
        gameEnd == checkGameEnd(placed)
    IN IF gameEnd.finished
       THEN [placed EXCEPT !.finished = TRUE, !.winner = gameEnd.winner,
                           !.isDraw = gameEnd.isDraw]
       ELSE [placed EXCEPT !.currentPlayer = (gameState.currentPlayer + 1) % 2]

\* Three-in-a-row.  The TicTacToeGame class that game-manager.js registers is not
\* among the sources; its rules are those of the tictactoe move handler of
\* backend/index.js, and its state is the one tictactoe.js creates.
tttCreateInitialGameState(players) ==
    [ board         |-> [i \in 0..8 |-> NoMark],
      currentPlayer |-> "X",
      winner        |-> NoMark,
      playerX       |-> players[1],
      playerO       |-> players[2],
      moves         |-> 0 ]

\* the lines of checkWinner without the last one
TttLinesNoAntiDiagonal == << <<0, 1, 2>>, <<3, 4, 5>>, <<6, 7, 8>>, <<0, 3, 6>>,
                             <<1, 4, 7>>, <<2, 5, 8>>, <<0, 4, 8>> >>

\* function checkWinner(board) of backend/index.js
TttLines == << <<0, 1, 2>>, <<3, 4, 5>>, <<6, 7, 8>>, <<0, 3, 6>>,
               <<1, 4, 7>>, <<2, 5, 8>>, <<0, 4, 8>>, <<2, 4, 6>> >>
tttCheckWinner(board) ==
    LET hit(l) == board[l[1]] # NoMark /\ board[l[1]] = board[l[2]] /\ board[l[1]] = board[l[3]]
        hits == {k \in 1..Len(TttLines) : hit(TttLines[k])}
    IN IF hits = {} THEN NoMark
       ELSE board[TttLines[CHOOSE k \in hits : \A j \in hits : k <= j][1]]

\* board[index]: undefined (falsy, as null) when index is no index of the array
tttCell(board, index) == IF index \in DOMAIN board THEN board[index] ELSE NoMark

\* the checks of the tictactoe move handler, in its order
tttValidateMove(gameState, userId, index) ==
    IF tttCell(gameState.board, index) # NoMark \/ gameState.winner # NoMark
    THEN [valid |-> FALSE, error |-> "Invalid move"]
    ELSE IF ~ \/ (gameState.currentPlayer = "X" /\ gameState.playerX = userId)
              \/ (gameState.currentPlayer = "O" /\ gameState.playerO = userId)
         THEN [valid |-> FALSE, error |-> "Not your turn"]
    ELSE [valid |-> TRUE, error |-> ""]

\* the move with the winner looked up on the board before the move
tttMakeMoveLateWinner(gameState, userId, index) ==
    LET newBoard == [gameState.board EXCEPT ![index] = gameState.currentPlayer]
        winner == tttCheckWinner(gameState.board)
        isDraw == winner = NoMark /\ \A i \in DOMAIN newBoard : newBoard[i] # NoMark
    IN [gameState EXCEPT
          !.board = newBoard,
          !.currentPlayer = IF gameState.currentPlayer = "X" THEN "O" ELSE "X",
          !.winner = IF winner # NoMark THEN winner ELSE IF isDraw THEN "draw" ELSE NoMark,
          !.moves = @ + 1]

\* newBoard[index] = currentPlayer: an index past the end lengthens the array; a
\* negative or undefined index sets a property that JSON.stringify drops.
tttMakeMove(gameState, userId, index) ==
    LET newBoard == IF index \in DOMAIN gameState.board
                    THEN [gameState.board EXCEPT ![index] = gameState.currentPlayer]
                    ELSE IF index # Undefined /\ index >= 0
                    THEN [i \in 0..index |-> IF i = index THEN gameState.currentPlayer
                                             ELSE tttCell(gameState.board, i)]
                    ELSE gameState.board
        winner == tttCheckWinner(newBoard)
        isDraw == winner = NoMark /\ \A i \in DOMAIN newBoard : newBoard[i] # NoMark
    IN [gameState EXCEPT
          !.board = newBoard,
          !.currentPlayer = IF gameState.currentPlayer = "X" THEN "O" ELSE "X",
          !.winner = IF winner # NoMark THEN winner ELSE IF isDraw THEN "draw" ELSE NoMark,
          !.moves = @ + 1]

\* `if (winner || isDraw)` of the tictactoe move handler
tttCheckGameEnd(gameState) ==
    [finished |-> gameState.winner # NoMark,
     winner   |-> IF gameState.winner = "draw" THEN NoMark ELSE gameState.winner,
     isDraw   |-> gameState.winner = "draw"]

\* GameManager: dispatch on the game type
gmValidateMove(gameType, gameState, userId, moveData) ==
    IF gameType = "tictactoe" THEN tttValidateMove(gameState, userId, moveData)
    ELSE validateMove(gameState, userId, moveData)
\* gmMakeMove over a makeMove whose row loop runs from row 0 upwards
gmMakeMoveTopRow(gameType, gameState, userId, moveData) ==
    IF gameType = "tictactoe" THEN tttMakeMove(gameState, userId, moveData)
    ELSE makeMoveTopRow(gameState, userId, moveData)
\* GameManager.makeMove
gmMakeMove(gameType, gameState, userId, moveData) ==
    IF gameType = "tictactoe" THEN tttMakeMove(gameState, userId, moveData)
    ELSE makeMove(gameState, userId, moveData)
gmCheckGameEnd(gameType, gameState) ==
    IF gameType = "tictactoe" THEN tttCheckGameEnd(gameState)
    ELSE checkGameEnd(gameState)

\* JavaScript truthiness of session.gameState.winner
WinnerSet(session) ==
    IF session.gameType = "tictactoe" THEN session.gameState.winner # NoMark
    ELSE session.gameState.winner # Null
\* gameState.playerX and gameState.playerO: undefined in the four-in-a-row state
PlayerX(gameState) == IF "playerX" \in DOMAIN gameState THEN gameState.playerX ELSE Undefined
PlayerO(gameState) == IF "playerO" \in DOMAIN gameState THEN gameState.playerO ELSE Undefined

\* ------------------------------------------------------------ statistics
ZeroStat == [gamesPlayed |-> 0, wins |-> 0, losses |-> 0, draws |-> 0]
ZeroStats == [u \in Users |-> ZeroStat]
AddStat(s, u) == [gamesPlayed |-> s.gamesPlayed + u.gamesPlayed, wins |-> s.wins + u.wins,
                  losses |-> s.losses + u.losses, draws |-> s.draws + u.draws]

\* StatUpdates with the forfeit adjustment left out and the winner's and the
\* loser's counters exchanged
StatUpdatesSwapped(playerX, playerO, winner, isDraw, forfeitUserId) ==
    LET base == [gamesPlayed |-> 1, wins |-> 0, losses |-> 0, draws |-> 0]
    IN IF winner = "X"
       THEN <<[base EXCEPT !.losses = 1], [base EXCEPT !.wins = 1]>>
       ELSE <<[base EXCEPT !.wins = 1], [base EXCEPT !.losses = 1]>>

\* updates[0] and updates[1] of updatePlayerStats
StatUpdates(playerX, playerO, winner, isDraw, forfeitUserId) ==
    LET base == [gamesPlayed |-> 1, wins |-> 0, losses |-> 0, draws |-> 0]
        u0 == IF isDraw THEN [base EXCEPT !.draws = 1]
              ELSE IF winner = "X" THEN [base EXCEPT !.wins = 1]
              ELSE IF winner = "O" THEN [base EXCEPT !.losses = 1]
              ELSE base
        u1 == IF isDraw THEN [base EXCEPT !.draws = 1]
              ELSE IF winner = "X" THEN [base EXCEPT !.losses = 1]
              ELSE IF winner = "O" THEN [base EXCEPT !.wins = 1]
              ELSE base
    IN IF forfeitUserId # Null /\ playerX = forfeitUserId
       THEN <<[u0 EXCEPT !.losses = 1, !.wins = 0], [u1 EXCEPT !.wins = 1, !.losses = 0]>>
       ELSE IF forfeitUserId # Null /\ playerO = forfeitUserId
       THEN <<[u0 EXCEPT !.wins = 1, !.losses = 0], [u1 EXCEPT !.losses = 1, !.wins = 0]>>
       ELSE <<u0, u1>>

\* updatePlayerStats(game, winner, isDraw, forfeitUserId): the documents after
\* the transaction.  doc(undefined) throws, and the function catches it.
updatePlayerStats(st, game, winner, isDraw, forfeitUserId) ==
    LET playerX == PlayerX(game.gameState)
        playerO == PlayerO(game.gameState)
    IN IF playerX \notin Users \/ playerO \notin Users THEN st
       ELSE LET updates == StatUpdates(playerX, playerO, winner, isDraw, forfeitUserId)
            IN [x \in Users |->
                  LET a == IF x = playerX THEN AddStat(st[x], updates[1]) ELSE st[x]
                  IN IF x = playerO THEN AddStat(a, updates[2]) ELSE a]

\* ------------------------------------------------------------ Redis lists
\* LREM key 1 value: remove the first occurrence of value, if any
RECURSIVE lRem1(_, _)
lRem1(q, v) ==
    IF q = << >> THEN << >>
    ELSE IF Head(q) = v THEN Tail(q)
    ELSE <<Head(q)>> \o lRem1(Tail(q), v)

InSeq(q, v) == \E i \in 1..Len(q) : q[i] = v
Count(q, v) == Cardinality({i \in 1..Len(q) : q[i] = v})

\* ------------------------------------------------------------- room ids
\* Strings are sequences of characters.  String.prototype.split(sep): the
\* pieces between the occurrences of sep (one piece when there is none)
RECURSIVE Split(_, _)
Split(str, sep) ==
    LET at == {i \in 1..Len(str) : str[i] = sep}
    IN IF at = {} THEN <<str>>
       ELSE LET i == CHOOSE x \in at : \A y \in at : x <= y
            IN <<SubSeq(str, 1, i - 1)>> \o Split(SubSeq(str, i + 1, Len(str)), sep)
\* Array.prototype.join(sep)
RECURSIVE Join(_, _)
Join(parts, sep) ==
    IF parts = << >> THEN << >>
    ELSE IF Len(parts) = 1 THEN parts[1]
    ELSE parts[1] \o <<sep>> \o Join(Tail(parts), sep)
\* Array.prototype.slice(0, -2): all elements but the last two
SliceButLastTwo(parts) ==
    IF Len(parts) <= 2 THEN << >> ELSE SubSeq(parts, 1, Len(parts) - 2)

\* the game type names
Tictactoe == <<"t", "i", "c", "t", "a", "c", "t", "o", "e">>
ConnectFour == <<"c", "o", "n", "n", "e", "c", "t", "-", "f", "o", "u", "r">>
GameTypes == {Tictactoe, ConnectFour}

RECURSIVE Strings(_, _)
Strings(alphabet, n) ==
    IF n = 0 THEN {<< >>}
    ELSE LET shorter == Strings(alphabet, n - 1)
         IN shorter \cup {str \o <<c>> : str \in shorter, c \in alphabet}
\* Date.now() in decimal: at least one digit
Stamps == Strings({"1", "7"}, MaxStampLen) \ {<< >>}
\* Math.random().toString(36).substr(2, n): digits and lower-case letters,
\* possibly none
Randoms == Strings({"0", "k", "z"}, MaxRandomLen)

\* BaseGame.createMatch: `${this.gameType}-${Date.now()}-${random}`
createMatchRoomId(gameType, stamp, random) == gameType \o <<"-">> \o stamp \o <<"-">> \o random
\* handleMatchmaking of games/tictactoe.js: `${Date.now()}_${random}`
legacyRoomId(stamp, random) == stamp \o <<"_">> \o random
\* cleanupResultScreen: roomId.split('-').slice(0, -2).join('-')
cleanupGameType(roomId) == Join(SliceButLastTwo(Split(roomId, "-")), "-")

\* no roomId generated yet; ran: cleanup has run on the roomId and derived is
\* the game type it took from it
NoRoomId == [by |-> "none", gameType |-> << >>, roomId |-> << >>, ran |-> FALSE,
             derived |-> << >>]

\* --------------------------------------------------------------- handlers
\* op, user: the request; pc: the await the handler is at; existing, players,
\* roomId: its locals; matched, roomId: its answer once pc = "done".
\* History: had = the Active room the caller's index entry named when the call
\* began (or Null); tainted = popped users who were cancelling or had cancelled;
\* overlap = (of a cancel) a requestMatch of the same user ran during it.
Idle == [op |-> "idle", user |-> Null, pc |-> "idle", existing |-> Null,
         players |-> << >>, tainted |-> {}, matched |-> FALSE, roomId |-> Null,
         had |-> Null, overlap |-> FALSE]

Running(p) == h[p].op # "idle" /\ h[p].pc # "done"
AllReturned == \A p \in Procs : ~Running(p)

Goto(p, label) == h' = [h EXCEPT ![p].pc = label]
Return(p, m, r) == [h[p] EXCEPT !.pc = "done", !.matched = m, !.roomId = r]

\* Redis string keys: SET and DEL of a session key
SetSession(r, data) == [x \in DOMAIN sessions \cup {r} |-> IF x = r THEN data ELSE sessions[x]]
DelSession(r) == [x \in DOMAIN sessions \ {r} |-> sessions[x]]
SessionExists(r) == r \in DOMAIN sessions

PlayersOf(r) == {sessions[r].players[i] : i \in 1..Len(sessions[r].players)}
SessionsOf(u) == {r \in DOMAIN sessions : u \in PlayersOf(r)}
ActiveSessionsOf(u) == {r \in SessionsOf(u) : sessions[r].status = "active"}
\* the Active room that u's index entry points to, if any
IndexedActive(u) ==
    IF userSession[u] # Null /\ userSession[u] \in ActiveSessionsOf(u)
    THEN userSession[u] ELSE Null

\* A new request arrives.  Handler slots are taken in order, at most MaxInFlight
\* handlers run at once, and userIds are first used in increasing order (users
\* are interchangeable).
Seen == {u \in Users : reqs[u] + cancels[u] > 0}
CanStart(p, u) ==
    /\ h[p].op = "idle" /\ (IF p = 1 THEN TRUE ELSE h[p-1].op # "idle")
    /\ Cardinality({q \in Procs : Running(q)}) < MaxInFlight
    /\ u <= Cardinality(Seen) + 1

\* POST /matchmaking/:gameType -> BaseGame.handleMatchmaking(userId, username)
StartRequestMatch(p, u) ==
    /\ CanStart(p, u)
    /\ h' = [q \in Procs |->
               IF q = p
               THEN [Idle EXCEPT !.op = "request", !.user = u, !.pc = "lRange",
                                 !.had = IndexedActive(u)]
               ELSE IF h[q].op = "cancel" /\ h[q].user = u /\ Running(q)
               THEN [h[q] EXCEPT !.overlap = TRUE]
               ELSE h[q]]
    /\ reqs' = [reqs EXCEPT ![u] = @ + 1]
    /\ cancelled' = cancelled \ {u}
    /\ UNCHANGED <<queue, sessions, userSession, nextRoom, cancels, raced, gameVars, ruleVars, resVars>>

\* HARD RESET: lRange, then the loop that looks for the user's entry
ReqLRange(p) ==
    /\ h[p].op = "request" /\ h[p].pc = "lRange"
    /\ Goto(p, IF InSeq(queue, h[p].user) THEN "lRem" ELSE "delMap")
    /\ UNCHANGED <<queue, sessions, userSession, nextRoom, reqs, cancels, cancelled, raced, gameVars, ruleVars, resVars>>

ReqLRem(p) ==
    /\ h[p].op = "request" /\ h[p].pc = "lRem"
    /\ queue' = lRem1(queue, h[p].user)
    /\ Goto(p, "delMap")
    /\ UNCHANGED <<sessions, userSession, nextRoom, reqs, cancels, cancelled, raced, gameVars, ruleVars, resVars>>

\* HARD RESET: redis.del(`user:${userId}:session`)
ReqDelMap(p) ==
    /\ h[p].op = "request" /\ h[p].pc = "delMap"
    /\ userSession' = [userSession EXCEPT ![h[p].user] = Null]
    /\ Goto(p, "getMap")
    /\ UNCHANGED <<queue, sessions, nextRoom, reqs, cancels, cancelled, raced, gameVars, ruleVars, resVars>>

\* Defensive check: redis.get(userSessionKey)
ReqGetMap(p) ==
    /\ h[p].op = "request" /\ h[p].pc = "getMap"
    /\ h' = [h EXCEPT ![p].existing = userSession[h[p].user],
                      ![p].pc = IF userSession[h[p].user] # Null THEN "exists" ELSE "rPush"]
    /\ UNCHANGED <<queue, sessions, userSession, nextRoom, reqs, cancels, cancelled, raced, gameVars, ruleVars, resVars>>

\* Defensive check, lines 255-282: one Redis command per step.
\*   exists      : redis.exists(session key)
\*   getSess     : redis.get(session key); an active session is returned
\*   delFinished : redis.del(session key) of a finished session
\*   delStale    : redis.del(userSessionKey) of a finished, corrupted or stale mapping
ReqDefensive(p) ==
    /\ h[p].op = "request" /\ h[p].pc \in {"exists", "getSess", "delFinished", "delStale"}
    /\ LET e == h[p].existing
           s == sessions[e]
           x == SessionExists(e)
       IN
       /\ h' = [h EXCEPT ![p] =
                 CASE h[p].pc = "exists" ->
                        [h[p] EXCEPT !.pc = IF x THEN "getSess" ELSE "delStale"]
                   [] h[p].pc = "getSess" ->
                        IF ~x THEN [h[p] EXCEPT !.pc = "delStale"]
                        ELSE IF s.status = "active" /\ ~WinnerSet(s)
                             THEN Return(p, TRUE, e)
                             ELSE [h[p] EXCEPT !.pc = "delFinished"]
                   [] h[p].pc = "delFinished" -> [h[p] EXCEPT !.pc = "delStale"]
                   [] OTHER -> [h[p] EXCEPT !.pc = "rPush"]]
       /\ sessions' = IF h[p].pc = "delFinished"
                      THEN DelSession(e) ELSE sessions
       /\ userSession' = IF h[p].pc = "delStale"
                         THEN [userSession EXCEPT ![h[p].user] = Null] ELSE userSession
    /\ UNCHANGED <<queue, nextRoom, reqs, cancels, cancelled, raced, gameVars, ruleVars, resVars>>

\* redis.rPush(queueKey, {userId, username}); the lLen that follows is only logged
ReqRPush(p) ==
    /\ h[p].op = "request" /\ h[p].pc = "rPush"
    /\ queue' = Append(queue, h[p].user)
    /\ Goto(p, "qLen")
    /\ UNCHANGED <<sessions, userSession, nextRoom, reqs, cancels, cancelled, raced, gameVars, ruleVars, resVars>>

\* tryMatchPlayers: getQueueLength() >= getMinPlayers()
TryQLen(p) ==
    /\ h[p].op = "request" /\ h[p].pc = "qLen"
    /\ h' = [h EXCEPT ![p] = IF Len(queue) >= MinPlayers
                             THEN [h[p] EXCEPT !.pc = "pop"]
                             ELSE Return(p, FALSE, Null)]
    /\ UNCHANGED <<queue, sessions, userSession, nextRoom, reqs, cancels, cancelled, raced, gameVars, ruleVars, resVars>>

\* a cancelMatchmaking of u that has read the queue and has not returned yet
CancelInFlight(u) ==
    \E q \in Procs : h[q].op = "cancel" /\ h[q].user = u /\ h[q].pc \in {"lRem", "delMap"}

\* tryMatchPlayers: one turn of the while loop, popFromQueue()
TryPop(p) ==
    /\ h[p].op = "request" /\ h[p].pc = "pop"
    /\ IF queue = << >>
       THEN /\ h' = [h EXCEPT ![p] = IF h[p].players = << >>
                                     THEN Return(p, FALSE, Null)
                                     ELSE [h[p] EXCEPT !.pc = "requeue"]]
            /\ UNCHANGED queue
       ELSE LET u  == Head(queue)
                ps == Append(h[p].players, u)
                t  == IF CancelInFlight(u) \/ u \in cancelled
                      THEN h[p].tainted \cup {u} ELSE h[p].tainted
            IN /\ queue' = Tail(queue)
               /\ h' = [h EXCEPT ![p].players = ps, ![p].tainted = t,
                                 ![p].pc = IF Len(ps) = MinPlayers THEN "setSess" ELSE "pop"]
    /\ UNCHANGED <<sessions, userSession, nextRoom, reqs, cancels, cancelled, raced, gameVars, ruleVars, resVars>>

\* tryMatchPlayers: for (const player of players) await this.addToQueue(player)
TryRequeue(p) ==
    /\ h[p].op = "request" /\ h[p].pc = "requeue"
    /\ queue' = Append(queue, Head(h[p].players))
    /\ h' = [h EXCEPT ![p] = IF Tail(h[p].players) = << >>
                             THEN [Return(p, FALSE, Null) EXCEPT !.players = << >>]
                             ELSE [h[p] EXCEPT !.players = Tail(h[p].players)]]
    /\ UNCHANGED <<sessions, userSession, nextRoom, reqs, cancels, cancelled, raced, gameVars, ruleVars, resVars>>

\* createMatch: fresh roomId, redis.set(session key, sessionData)
CreateSetSession(p) ==
    /\ h[p].op = "request" /\ h[p].pc = "setSess"
    /\ nextRoom' = nextRoom + 1
    /\ sessions' = SetSession(nextRoom + 1,
                      [ gameType  |-> "connect-four",
                        players   |-> h[p].players,
                        gameState |-> createInitialGameState(h[p].players),
                        status    |-> "active" ])
    /\ raced' = raced \cup {<<nextRoom + 1, u>> : u \in h[p].tainted}
    /\ h' = [h EXCEPT ![p].roomId = nextRoom + 1, ![p].existing = 1, ![p].pc = "setMap"]
    /\ UNCHANGED <<queue, userSession, reqs, cancels, cancelled, gameVars, ruleVars, resVars>>

\* createMatch: for (const player of players) redis.set(`user:${player.userId}:session`, roomId)
\* (h[p].existing is reused as the loop index)
CreateSetMap(p) ==
    /\ h[p].op = "request" /\ h[p].pc = "setMap"
    /\ userSession' = [userSession EXCEPT ![h[p].players[h[p].existing]] = h[p].roomId]
    /\ h' = [h EXCEPT ![p] = IF h[p].existing = Len(h[p].players)
                             THEN Return(p, TRUE, h[p].roomId)
                             ELSE [h[p] EXCEPT !.existing = @ + 1]]
    /\ UNCHANGED <<queue, sessions, nextRoom, reqs, cancels, cancelled, raced, gameVars, ruleVars, resVars>>

\* POST /matchmaking/:gameType/cancel -> BaseGame.cancelMatchmaking(userId)
StartCancel(p, u) ==
    /\ CanStart(p, u)
    /\ h' = [h EXCEPT ![p] =
               [Idle EXCEPT !.op = "cancel", !.user = u, !.pc = "lRange",
                            !.overlap = \E q \in Procs : /\ h[q].op = "request"
                                                         /\ h[q].user = u /\ Running(q)]]
    /\ cancels' = [cancels EXCEPT ![u] = @ + 1]
    /\ UNCHANGED <<queue, sessions, userSession, nextRoom, reqs, cancelled, raced, gameVars, ruleVars, resVars>>

CancelLRange(p) ==
    /\ h[p].op = "cancel" /\ h[p].pc = "lRange"
    /\ Goto(p, IF InSeq(queue, h[p].user) THEN "lRem" ELSE "delMap")
    /\ UNCHANGED <<queue, sessions, userSession, nextRoom, reqs, cancels, cancelled, raced, gameVars, ruleVars, resVars>>

CancelLRem(p) ==
    /\ h[p].op = "cancel" /\ h[p].pc = "lRem"
    /\ queue' = lRem1(queue, h[p].user)
    /\ Goto(p, "delMap")
    /\ UNCHANGED <<sessions, userSession, nextRoom, reqs, cancels, cancelled, raced, gameVars, ruleVars, resVars>>

\* redis.del(`user:${userId}:session`), then the endpoint answers {success: true}
CancelDelMap(p) ==
    /\ h[p].op = "cancel" /\ h[p].pc = "delMap"
    /\ userSession' = [userSession EXCEPT ![h[p].user] = Null]
    /\ h' = [h EXCEPT ![p] = Return(p, FALSE, Null)]
    /\ cancelled' = IF h[p].overlap THEN cancelled ELSE cancelled \cup {h[p].user}
    /\ UNCHANGED <<queue, sessions, nextRoom, reqs, cancels, raced, gameVars, ruleVars, resVars>>

\* ------------------------------------------------- move and leave handlers
MProcs == 1..MaxMoveCalls
NoGame == [status |-> "none"]
\* op, user, input, room: the request; pc: the await the handler is at; game: its
\* parsed copy of the session; threw: the Firestore transaction of its
\* updatePlayerStats call failed; answer: what it sent ("ok" = the updated session)
MvIdle == [op |-> "idle", user |-> Null, input |-> Null, room |-> Null,
           pc |-> "idle", game |-> NoGame, threw |-> FALSE, answer |-> ""]

MvRunning(p) == mv[p].op # "idle" /\ mv[p].pc # "done"

\* Leave-result handlers and timer callbacks.  op, user, room: the request (a
\* timer callback has no user); pc: the await it is at; game: the session that
\* cleanupResultScreen parsed; todo: the queue entries it still has to lRem;
\* detached, size: its playersOnResult Set has been removed from the Map by a
\* cleanup, holding size members (of a timer callback: the members of the Set
\* when the timer fired); quiet: no move or leave handler was running when it
\* started; retry: a call with the same arguments had completed when it
\* started; queued: its user had a queue entry when it started; resident: its
\* user was in the room's Set when it started; answer: what the endpoint sent.
RProcs == 1..MaxResultCalls
RsIdle == [op |-> "idle", user |-> Null, room |-> Null, pc |-> "idle", game |-> NoGame,
           todo |-> << >>, detached |-> FALSE, size |-> 0, quiet |-> FALSE,
           retry |-> FALSE, queued |-> FALSE, resident |-> FALSE, answer |-> ""]
RsRunning(p) == rs[p].op # "idle" /\ rs[p].pc # "done"
InFlight == Cardinality({q \in MProcs : MvRunning(q)})
            + Cardinality({q \in RProcs : RsRunning(q)})
Started == Cardinality({q \in MProcs : mv[q].op # "idle"})
           + Cardinality({q \in RProcs : rs[q].op # "idle"})
AllMovesReturned == \A p \in MProcs : ~MvRunning(p)
MvCanStart(p) ==
    /\ mv[p].op = "idle" /\ (IF p = 1 THEN TRUE ELSE mv[p-1].op # "idle")
    /\ InFlight < MaxInFlight /\ Started < MaxStarted
MvAnswer(p, a) == [mv[p] EXCEPT !.pc = "done", !.answer = a]

\* the move inputs tried: per game a winning target of each player, a neutral
\* one, and an occupied (three-in-a-row) or out-of-range (four-in-a-row) one
MoveInputs(gameType) == IF gameType = "tictactoe" THEN {0, 2, 5, 8} ELSE {0, 1, 3, COLS}

\* `if (!playersOnResultScreen.has(roomId)) { ...set(roomId, new Set([playerX, playerO]));
\*  resultScreenTimeouts.set(roomId, setTimeout(...)) }`
InitResultScreen(r, gameState) ==
    IF r \in DOMAIN playersOnResultScreen
    THEN UNCHANGED <<playersOnResultScreen, resultScreenTimeouts, inits>>
    ELSE /\ playersOnResultScreen' =
              [x \in DOMAIN playersOnResultScreen \cup {r} |->
                  IF x = r THEN {PlayerX(gameState), PlayerO(gameState)}
                  ELSE playersOnResultScreen[x]]
         /\ resultScreenTimeouts' = resultScreenTimeouts \cup {r}
         /\ inits' = [x \in DOMAIN inits \cup {r} |->
                         IF x # r THEN inits[x]
                         ELSE IF r \in DOMAIN inits THEN inits[r] + 1 ELSE 1]

\* POST /game/:gameType/:roomId/move
StartMove(p, u, r, x) ==
    /\ MvCanStart(p)
    /\ mv' = [mv EXCEPT ![p] = [MvIdle EXCEPT !.op = "move", !.user = u, !.room = r,
                                             !.input = x, !.pc = "get"]]
    /\ UNCHANGED <<queue, sessions, userSession, nextRoom, mmVars, ruleVars, resVars,
                   playersOnResultScreen, resultScreenTimeouts, inits, accepted, stats>>

\* MoveGet with the move persisted before the validation result is looked at
MoveGetPersistsFirst(p) ==
    /\ mv[p].op = "move" /\ mv[p].pc = "get"
    /\ SessionExists(mv[p].room)
    /\ LET game == sessions[mv[p].room]
           validation == gmValidateMove(game.gameType, game.gameState,
                                        mv[p].user, mv[p].input)
       IN /\ validation.error = "Not your turn"
          /\ sessions' = SetSession(mv[p].room,
                 [game EXCEPT !.gameState.currentPlayer =
                     IF game.gameType = "tictactoe" THEN "O" ELSE 1])
          /\ mv' = [mv EXCEPT ![p] = MvAnswer(p, validation.error)]
    /\ UNCHANGED <<queue, userSession, nextRoom, mmVars, ruleVars, resVars,
                   playersOnResultScreen, resultScreenTimeouts, inits, accepted, stats>>

\* getSession, then validateMove, makeMove and checkGameEnd on the copy
MoveGet(p) ==
    /\ mv[p].op = "move" /\ mv[p].pc = "get"
    /\ mv' = [mv EXCEPT ![p] =
         IF ~SessionExists(mv[p].room) THEN MvAnswer(p, "Game not found")
         ELSE LET game == sessions[mv[p].room]
                  validation == gmValidateMove(game.gameType, game.gameState,
                                               mv[p].user, mv[p].input)
                  newGameState == gmMakeMove(game.gameType, game.gameState,
                                             mv[p].user, mv[p].input)
                  gameEnd == gmCheckGameEnd(game.gameType, newGameState)
              IN IF ~validation.valid THEN MvAnswer(p, validation.error)
                 ELSE [mv[p] EXCEPT !.game = [game EXCEPT !.gameState = newGameState],
                                    !.pc = IF gameEnd.finished THEN "stats" ELSE "update"]]
    /\ UNCHANGED <<queue, sessions, userSession, nextRoom, mmVars, ruleVars, resVars,
                   playersOnResultScreen, resultScreenTimeouts, inits, accepted, stats>>

\* MoveStats with an updatePlayerStats that lets the error of its transaction
\* escape to the handler's catch block
MoveStatsThrowPropagates(p) ==
    /\ mv[p].op = "move" /\ mv[p].pc = "stats"
    /\ \E threw \in BOOLEAN :
          LET gameEnd == gmCheckGameEnd(mv[p].game.gameType, mv[p].game.gameState) IN
          IF threw
          THEN /\ mv' = [mv EXCEPT ![p] = [MvAnswer(p, "Internal server error")
                                             EXCEPT !.threw = TRUE]]
               /\ UNCHANGED <<stats, playersOnResultScreen, resultScreenTimeouts, inits>>
          ELSE /\ stats' = updatePlayerStats(stats, mv[p].game, gameEnd.winner,
                                            gameEnd.isDraw, Null)
               /\ mv' = [mv EXCEPT ![p].game.status = "finished", ![p].pc = "update"]
               /\ InitResultScreen(mv[p].room, mv[p].game.gameState)
    /\ UNCHANGED <<queue, sessions, userSession, nextRoom, mmVars, ruleVars, resVars, accepted>>

\* the game ended: await updatePlayerStats(game, gameEnd.winner, gameEnd.isDraw)
\* (the transaction commits or throws; a throw is caught and logged), then
\* game.status = "finished" and the result screen tracking
MoveStats(p) ==
    /\ mv[p].op = "move" /\ mv[p].pc = "stats"
    /\ \E threw \in BOOLEAN :
          LET gameEnd == gmCheckGameEnd(mv[p].game.gameType, mv[p].game.gameState) IN
          /\ stats' = IF threw THEN stats
                      ELSE updatePlayerStats(stats, mv[p].game, gameEnd.winner,
                                             gameEnd.isDraw, Null)
          /\ mv' = [mv EXCEPT ![p].game.status = "finished", ![p].pc = "update",
                              ![p].threw = threw]
    /\ InitResultScreen(mv[p].room, mv[p].game.gameState)
    /\ UNCHANGED <<queue, sessions, userSession, nextRoom, mmVars, ruleVars, resVars, accepted>>

\* updateSession, then res.json(game)
MoveUpdate(p) ==
    /\ mv[p].op = "move" /\ mv[p].pc = "update"
    /\ sessions' = SetSession(mv[p].room, mv[p].game)
    /\ mv' = [mv EXCEPT ![p] = MvAnswer(p, "ok")]
    /\ accepted' = [accepted EXCEPT ![mv[p].room] = @ + 1]
    /\ UNCHANGED <<queue, userSession, nextRoom, mmVars, ruleVars, resVars,
                   playersOnResultScreen, resultScreenTimeouts, inits, stats>>

\* POST /game/:gameType/:roomId/leave
StartLeave(p, u, r) ==
    /\ MvCanStart(p)
    /\ mv' = [mv EXCEPT ![p] = [MvIdle EXCEPT !.op = "leave", !.user = u, !.room = r,
                                             !.pc = "get"]]
    /\ UNCHANGED <<queue, sessions, userSession, nextRoom, mmVars, ruleVars, resVars,
                   playersOnResultScreen, resultScreenTimeouts, inits, accepted, stats>>

\* LeaveGet without the `if (gameState.winner)` return
LeaveGetNoWinnerCheck(p) ==
    /\ mv[p].op = "leave" /\ mv[p].pc = "get"
    /\ mv' = [mv EXCEPT ![p] =
         IF ~SessionExists(mv[p].room) THEN MvAnswer(p, "Game not found")
         ELSE LET game == sessions[mv[p].room]
                  gameState == game.gameState
                  isX == PlayerX(gameState) = mv[p].user
                  isO == PlayerO(gameState) = mv[p].user
                  winnerId == IF isX THEN PlayerO(gameState) ELSE PlayerX(gameState)
                  mark == IF PlayerX(gameState) = winnerId THEN "X" ELSE "O"
              IN IF ~isX /\ ~isO THEN MvAnswer(p, "User not in this game")
                 ELSE [mv[p] EXCEPT !.game = [game EXCEPT !.gameState.winner = mark,
                                                          !.status = "finished"],
                                    !.pc = "set"]]
    /\ UNCHANGED <<queue, sessions, userSession, nextRoom, mmVars, ruleVars, resVars,
                   playersOnResultScreen, resultScreenTimeouts, inits, accepted, stats>>

\* redis.get(sessionKey), the checks, and the forfeit on the copy
LeaveGet(p) ==
    /\ mv[p].op = "leave" /\ mv[p].pc = "get"
    /\ mv' = [mv EXCEPT ![p] =
         IF ~SessionExists(mv[p].room) THEN MvAnswer(p, "Game not found")
         ELSE LET game == sessions[mv[p].room]
                  gameState == game.gameState
                  isX == PlayerX(gameState) = mv[p].user
                  isO == PlayerO(gameState) = mv[p].user
                  winnerId == IF isX THEN PlayerO(gameState) ELSE PlayerX(gameState)
                  mark == IF PlayerX(gameState) = winnerId THEN "X" ELSE "O"
              IN IF WinnerSet(game) THEN MvAnswer(p, "Game already finished")
                 ELSE IF ~isX /\ ~isO THEN MvAnswer(p, "User not in this game")
                 ELSE [mv[p] EXCEPT !.game = [game EXCEPT !.gameState.winner = mark,
                                                          !.status = "finished"],
                                    !.pc = "set"]]
    /\ UNCHANGED <<queue, sessions, userSession, nextRoom, mmVars, ruleVars, resVars,
                   playersOnResultScreen, resultScreenTimeouts, inits, accepted, stats>>

\* redis.set(sessionKey, game)
LeaveSet(p) ==
    /\ mv[p].op = "leave" /\ mv[p].pc = "set"
    /\ sessions' = SetSession(mv[p].room, mv[p].game)
    /\ mv' = [mv EXCEPT ![p].pc = "stats"]
    /\ UNCHANGED <<queue, userSession, nextRoom, mmVars, ruleVars, resVars,
                   playersOnResultScreen, resultScreenTimeouts, inits, accepted, stats>>

\* await updatePlayerStats(game, gameState.winner, false, userId) (commits or
\* throws and is caught), then the result screen tracking and the answer
LeaveStats(p) ==
    /\ mv[p].op = "leave" /\ mv[p].pc = "stats"
    /\ \E threw \in BOOLEAN :
          /\ stats' = IF threw THEN stats
                      ELSE updatePlayerStats(stats, mv[p].game, mv[p].game.gameState.winner,
                                             FALSE, mv[p].user)
          /\ mv' = [mv EXCEPT ![p] = [MvAnswer(p, "Player left, opponent wins")
                                        EXCEPT !.threw = threw]]
    /\ InitResultScreen(mv[p].room, mv[p].game.gameState)
    /\ UNCHANGED <<queue, sessions, userSession, nextRoom, mmVars, ruleVars, resVars, accepted>>

\* ------------------------------------------- result screen and cleanup
RsCanStart(p) ==
    /\ rs[p].op = "idle" /\ (IF p = 1 THEN TRUE ELSE rs[p-1].op # "idle")
    /\ InFlight < MaxInFlight /\ Started < MaxStarted
RsAnswer(op) ==
    IF op = "leaveResult" THEN "Left result screen"
    ELSE IF op = "cleanup" THEN "Session cleaned up" ELSE ""
RsDone(p) == [rs[p] EXCEPT !.pc = "done", !.answer = RsAnswer(rs[p].op)]
Tracked(r) == r \in DOMAIN playersOnResultScreen

\* CleanupFinish without `resultScreenTimeouts.delete(roomId)`
CleanupFinishKeepsTimer(p) ==
    LET r == rs[p].room IN
    /\ playersOnResultScreen' =
          [x \in DOMAIN playersOnResultScreen \ {r} |-> playersOnResultScreen[x]]
    /\ resultScreenTimeouts' = resultScreenTimeouts
    /\ timerFired' = timerFired \ {r}
    /\ rs' = [q \in RProcs |->
                IF q = p THEN RsDone(p)
                ELSE IF /\ Tracked(r) /\ rs[q].op = "leaveResult" /\ rs[q].room = r
                        /\ rs[q].pc = "delMap" /\ ~rs[q].detached
                THEN [rs[q] EXCEPT !.detached = TRUE,
                                   !.size = Cardinality(playersOnResultScreen[r])]
                ELSE rs[q]]

\* cleanupResultScreen, "Clear tracking data", and the return to the caller:
\* playersOnResultScreen.delete, clearTimeout and resultScreenTimeouts.delete.
\* Handlers that hold the removed Set keep it, with the members it has now.
CleanupFinish(p) ==
    LET r == rs[p].room IN
    /\ playersOnResultScreen' =
          [x \in DOMAIN playersOnResultScreen \ {r} |-> playersOnResultScreen[x]]
    /\ resultScreenTimeouts' = resultScreenTimeouts \ {r}
    /\ timerFired' = timerFired \ {r}
    /\ rs' = [q \in RProcs |->
                IF q = p THEN RsDone(p)
                ELSE IF /\ Tracked(r) /\ rs[q].op = "leaveResult" /\ rs[q].room = r
                        /\ rs[q].pc = "delMap" /\ ~rs[q].detached
                THEN [rs[q] EXCEPT !.detached = TRUE,
                                   !.size = Cardinality(playersOnResultScreen[r])]
                ELSE rs[q]]

\* CleanupEnter without the has-check
CleanupEnterNoCheck(p, op, r) ==
    [RsIdle EXCEPT !.op = op, !.user = rs[p].user, !.room = r, !.pc = "cGet",
                   !.quiet = rs[p].quiet]

\* cleanupResultScreen, entry: `if (!playersOnResultScreen.has(roomId)) return`
\* (the caller then answers; detached records that the room was not in the
\* Map), else the redis.get of the session is issued
CleanupEnter(p, op, r) ==
    IF Tracked(r)
    THEN [RsIdle EXCEPT !.op = op, !.user = rs[p].user, !.room = r, !.pc = "cGet",
                        !.quiet = rs[p].quiet, !.retry = rs[p].retry,
                        !.queued = rs[p].queued, !.resident = rs[p].resident]
    ELSE [RsDone(p) EXCEPT !.op = op, !.room = r, !.detached = TRUE,
                           !.answer = RsAnswer(op)]

\* a call of the endpoint op by user u (for room r, where the endpoint takes
\* one) has completed with success
Completed(op, u, r) ==
    \E q \in RProcs :
        /\ rs[q].op = op /\ rs[q].user = u /\ rs[q].pc = "done"
        /\ (op = "leaveResult"
              => (rs[q].room = r /\ rs[q].answer = "Left result screen"))

\* POST /game/:gameType/:roomId/leave-result: the synchronous part, up to the
\* redis.del it awaits
StartLeaveResult(p, u, r) ==
    /\ RsCanStart(p)
    /\ IF ~Tracked(r)
       THEN /\ rs' = [rs EXCEPT ![p] = [RsIdle EXCEPT !.op = "leaveResult", !.user = u,
                                           !.room = r, !.pc = "done",
                                           !.quiet = AllMovesReturned,
                                           !.answer = "Result screen not found"]]
            /\ UNCHANGED playersOnResultScreen
       ELSE /\ rs' = [rs EXCEPT ![p] = [RsIdle EXCEPT !.op = "leaveResult", !.user = u,
                                           !.room = r, !.pc = "delMap",
                                           !.quiet = AllMovesReturned,
                                           !.retry = Completed("leaveResult", u, r),
                                           !.queued = InSeq(queue, u),
                                           !.resident = u \in playersOnResultScreen[r]]]
            /\ playersOnResultScreen' = [playersOnResultScreen EXCEPT ![r] = @ \ {u}]
    /\ UNCHANGED <<queue, sessions, userSession, nextRoom, mmVars, ruleVars, mv,
                   resultScreenTimeouts, inits, accepted, stats, timerFired>>

\* LrDelMap that calls cleanupResultScreen whatever the size of the Set
LrDelMapAlwaysCleans(p) ==
    /\ rs[p].op = "leaveResult" /\ rs[p].pc = "delMap"
    /\ userSession' = [userSession EXCEPT ![rs[p].user] = Null]
    /\ rs' = [rs EXCEPT ![p] = CleanupEnter(p, "leaveResult", rs[p].room)]
    /\ UNCHANGED <<queue, sessions, nextRoom, mmVars, ruleVars, gameVars, timerFired>>

\* leave-result: redis.del(`user:${userId}:session`), then
\* `if (playersOnResult.size === 0) await cleanupResultScreen(roomId)`
LrDelMap(p) ==
    /\ rs[p].op = "leaveResult" /\ rs[p].pc = "delMap"
    /\ userSession' = [userSession EXCEPT ![rs[p].user] = Null]
    /\ LET size == IF rs[p].detached THEN rs[p].size
                   ELSE Cardinality(playersOnResultScreen[rs[p].room])
       IN rs' = [rs EXCEPT ![p] = IF size = 0
                                  THEN CleanupEnter(p, "leaveResult", rs[p].room)
                                  ELSE RsDone(p)]
    /\ UNCHANGED <<queue, sessions, nextRoom, mmVars, ruleVars, gameVars, timerFired>>

\* the 60 s timer of a room fires: `await cleanupResultScreen(roomId)`
TimerFire(p, r) ==
    /\ RsCanStart(p)
    /\ r \in resultScreenTimeouts \ timerFired
    /\ timerFired' = timerFired \cup {r}
    /\ rs' = [rs EXCEPT ![p] =
                 [CleanupEnter(p, "timer", r) EXCEPT
                     !.size = IF Tracked(r) THEN Cardinality(playersOnResultScreen[r])
                              ELSE 0,
                     !.quiet = AllMovesReturned]]
    /\ UNCHANGED <<queue, sessions, userSession, nextRoom, mmVars, ruleVars, gameVars>>

\* POST /game/tictactoe/:roomId/cleanup: `await cleanupResultScreen(roomId)`,
\* then res.json({ message: "Session cleaned up" })
StartCleanup(p, r) ==
    /\ RsCanStart(p)
    /\ rs' = [rs EXCEPT ![p] = [CleanupEnter(p, "cleanup", r) EXCEPT
                                  !.quiet = AllMovesReturned]]
    /\ UNCHANGED <<queue, sessions, userSession, nextRoom, mmVars, ruleVars, gameVars,
                   timerFired>>

\* cleanupResultScreen: redis.get(sessionKey)
CleanupGet(p) ==
    /\ rs[p].pc = "cGet"
    /\ IF SessionExists(rs[p].room)
       THEN /\ rs' = [rs EXCEPT ![p].game = sessions[rs[p].room], ![p].pc = "cDelSess"]
            /\ UNCHANGED <<playersOnResultScreen, resultScreenTimeouts, timerFired>>
       ELSE CleanupFinish(p)
    /\ UNCHANGED <<queue, sessions, userSession, nextRoom, mmVars, ruleVars, mv,
                   inits, accepted, stats>>

\* cleanupResultScreen: redis.del(sessionKey)
CleanupDelSess(p) ==
    /\ rs[p].pc = "cDelSess"
    /\ sessions' = DelSession(rs[p].room)
    /\ rs' = [rs EXCEPT ![p].pc = "cDelX"]
    /\ UNCHANGED <<queue, userSession, nextRoom, mmVars, ruleVars, gameVars, timerFired>>

\* redis.del(`user:${id}:session`); with id undefined it names no user's key
DelUserSession(id) ==
    IF id \in Users THEN [userSession EXCEPT ![id] = Null] ELSE userSession

\* cleanupResultScreen: redis.del(`user:${playerX}:session`)
CleanupDelX(p) ==
    /\ rs[p].pc = "cDelX"
    /\ userSession' = DelUserSession(PlayerX(rs[p].game.gameState))
    /\ rs' = [rs EXCEPT ![p].pc = "cDelO"]
    /\ UNCHANGED <<queue, sessions, nextRoom, mmVars, ruleVars, gameVars, timerFired>>

\* cleanupResultScreen: redis.del(`user:${playerO}:session`)
CleanupDelO(p) ==
    /\ rs[p].pc = "cDelO"
    /\ userSession' = DelUserSession(PlayerO(rs[p].game.gameState))
    /\ rs' = [rs EXCEPT ![p].pc = "cLRange"]
    /\ UNCHANGED <<queue, sessions, nextRoom, mmVars, ruleVars, gameVars, timerFired>>

\* cleanupResultScreen: redis.lRange(queueKey, 0, -1) and the entries of the
\* two players in it
CleanupLRange(p) ==
    /\ rs[p].pc = "cLRange"
    /\ LET gameState == rs[p].game.gameState
           Hit(e) == e = PlayerX(gameState) \/ e = PlayerO(gameState)
           todo == SelectSeq(queue, Hit)
       IN IF todo = << >>
          THEN CleanupFinish(p)
          ELSE /\ rs' = [rs EXCEPT ![p].todo = todo, ![p].pc = "cLRem"]
               /\ UNCHANGED <<playersOnResultScreen, resultScreenTimeouts, timerFired>>
    /\ UNCHANGED <<queue, sessions, userSession, nextRoom, mmVars, ruleVars, mv,
                   inits, accepted, stats>>

\* cleanupResultScreen: redis.lRem(queueKey, 1, queue[i])
CleanupLRem(p) ==
    /\ rs[p].pc = "cLRem"
    /\ queue' = lRem1(queue, Head(rs[p].todo))
    /\ IF Tail(rs[p].todo) = << >>
       THEN CleanupFinish(p)
       ELSE /\ rs' = [rs EXCEPT ![p].todo = Tail(rs[p].todo)]
            /\ UNCHANGED <<playersOnResultScreen, resultScreenTimeouts, timerFired>>
    /\ UNCHANGED <<sessions, userSession, nextRoom, mmVars, ruleVars, mv,
                   inits, accepted, stats>>

\* ------------------------------------------------ matchmaking status poll
\* GET /matchmaking/:gameType/status?userId=: redis.get(`user:${userId}:session`)
\* is issued
StartPoll(p, u) ==
    /\ RsCanStart(p)
    /\ rs' = [rs EXCEPT ![p] = [RsIdle EXCEPT !.op = "poll", !.user = u, !.pc = "pGetMap",
                                              !.quiet = AllMovesReturned,
                                              !.retry = Completed("poll", u, Null)]]
    /\ UNCHANGED <<queue, sessions, userSession, nextRoom, mmVars, ruleVars, gameVars,
                   timerFired>>

\* the index entry read: none -> {matched: false}; else the session is looked up
PollGetMap(p) ==
    /\ rs[p].op = "poll" /\ rs[p].pc = "pGetMap"
    /\ rs' = [rs EXCEPT ![p] =
                 IF userSession[rs[p].user] = Null
                 THEN [rs[p] EXCEPT !.pc = "done", !.answer = "not matched"]
                 ELSE [rs[p] EXCEPT !.room = userSession[rs[p].user], !.pc = "pGetSess"]]
    /\ UNCHANGED <<queue, sessions, userSession, nextRoom, mmVars, ruleVars, gameVars,
                   timerFired>>

\* PollGetSession that takes every stored session as valid
PollGetSessionAnyStatus(p) ==
    /\ rs[p].op = "poll" /\ rs[p].pc = "pGetSess"
    /\ rs' = [rs EXCEPT ![p] =
                 IF ~SessionExists(rs[p].room) THEN [rs[p] EXCEPT !.pc = "pDel"]
                 ELSE [rs[p] EXCEPT !.pc = "done", !.answer = "matched"]]
    /\ UNCHANGED <<queue, sessions, userSession, nextRoom, mmVars, ruleVars, gameVars,
                   timerFired>>

\* the session read under the key of its game type: active, or finished with
\* the room in playersOnResultScreen -> {matched: true, roomId}; finished and
\* not tracked -> the del inside the loop; absent -> the del after the loop
PollGetSession(p) ==
    /\ rs[p].op = "poll" /\ rs[p].pc = "pGetSess"
    /\ rs' = [rs EXCEPT ![p] =
                 IF ~SessionExists(rs[p].room) THEN [rs[p] EXCEPT !.pc = "pDel"]
                 ELSE LET session == sessions[rs[p].room] IN
                      IF \/ session.status = "active"
                         \/ session.status = "finished" /\ Tracked(rs[p].room)
                      THEN [rs[p] EXCEPT !.pc = "done", !.answer = "matched"]
                      ELSE [rs[p] EXCEPT !.pc = "pDelStale"]]
    /\ UNCHANGED <<queue, sessions, userSession, nextRoom, mmVars, ruleVars, gameVars,
                   timerFired>>

\* "Cleaning up stale session mapping": redis.del(`user:${userId}:session`)
\* inside the loop; the del after the loop follows
PollDelStale(p) ==
    /\ rs[p].op = "poll" /\ rs[p].pc = "pDelStale"
    /\ userSession' = [userSession EXCEPT ![rs[p].user] = Null]
    /\ rs' = [rs EXCEPT ![p].pc = "pDel"]
    /\ UNCHANGED <<queue, sessions, nextRoom, mmVars, ruleVars, gameVars, timerFired>>

\* "Clean up invalid session mapping": redis.del(`user:${userId}:session`),
\* then {matched: false}
PollDel(p) ==
    /\ rs[p].op = "poll" /\ rs[p].pc = "pDel"
    /\ userSession' = [userSession EXCEPT ![rs[p].user] = Null]
    /\ rs' = [rs EXCEPT ![p].pc = "done", ![p].answer = "not matched"]
    /\ UNCHANGED <<queue, sessions, nextRoom, mmVars, ruleVars, gameVars, timerFired>>

\* ------------------------------------------------------------ specification
\* no call of the rule engine on its own
RuleIdle == [userId |-> Null, input |-> Null, validation |-> [valid |-> FALSE, error |-> ""]]
NoRules == rg = [gameType |-> "none"] /\ rv = RuleIdle /\ made = NoRoomId
\* no leave-result handler, no timer
NoResults == rs = [p \in RProcs |-> RsIdle] /\ timerFired = {} /\ inits = << >>

NoGames ==
    /\ NoRules
    /\ NoResults
    /\ mv = [p \in MProcs |-> MvIdle]
    /\ playersOnResultScreen = << >>
    /\ resultScreenTimeouts = {}
    /\ accepted = << >>
    /\ stats = ZeroStats

Init ==
    /\ NoGames
    /\ queue = << >>
    /\ sessions = << >>
    /\ userSession = [u \in Users |-> Null]
    /\ nextRoom = 0
    /\ h = [p \in Procs |-> Idle]
    /\ reqs = [u \in Users |-> 0]
    /\ cancels = [u \in Users |-> 0]
    /\ cancelled = {}
    /\ raced = {}

Next ==
    \E p \in Procs :
        \/ \E u \in Users : StartRequestMatch(p, u)
        \/ \E u \in Users : StartCancel(p, u)
        \/ ReqLRange(p) \/ ReqLRem(p) \/ ReqDelMap(p) \/ ReqGetMap(p)
        \/ ReqDefensive(p)
        \/ ReqRPush(p) \/ TryQLen(p) \/ TryPop(p) \/ TryRequeue(p)
        \/ CreateSetSession(p) \/ CreateSetMap(p)
        \/ CancelLRange(p) \/ CancelLRem(p) \/ CancelDelMap(p)

Spec == Init /\ [][Next]_vars

\* One room whose two players submit moves and leave.  The room is a session as
\* createMatch stores it, either fresh or after the alternating moves that
\* leave each player one move from a win, each of them validated and made as
\* the move handler does.
RECURSIVE Play(_, _, _, _)
Play(gameType, gameState, turn, inputs) ==
    IF inputs = << >> THEN gameState
    ELSE IF ~gmValidateMove(gameType, gameState, turn[1], Head(inputs)).valid
         THEN gameState
    ELSE Play(gameType,
              gmMakeMove(gameType, gameState, turn[1], Head(inputs)),
              <<turn[2], turn[1]>>, Tail(inputs))

StartSession(gameType, inputs) ==
    [ gameType  |-> gameType,
      players   |-> <<1, 2>>,
      gameState |-> Play(gameType,
                         IF gameType = "tictactoe"
                         THEN tttCreateInitialGameState(<<1, 2>>)
                         ELSE createInitialGameState(<<1, 2>>),
                         <<1, 2>>, inputs),
      status    |-> "active" ]

StartSessions ==
    { StartSession("connect-four", << >>),
      StartSession("connect-four", <<0, 1, 0, 1, 0, 1>>),
      StartSession("tictactoe", << >>),
      StartSession("tictactoe", <<0, 3, 1, 4>>) }

\* the number of pieces (markers) on the board of a session
Pieces(session) ==
    IF session.gameType = "tictactoe"
    THEN Cardinality({i \in DOMAIN session.gameState.board :
                         session.gameState.board[i] # NoMark})
    ELSE Cardinality({rc \in (0..(ROWS - 1)) \X (0..(COLS - 1)) :
                         session.gameState.board[rc[1]][rc[2]] # Null})

InitMove ==
    /\ queue = << >>
    /\ \E start \in StartSessions :
          /\ sessions = [r \in {1} |-> start]
          /\ accepted = [r \in {1} |-> Pieces(start)]
          /\ stats = ZeroStats
    /\ userSession = [u \in Users |-> IF u \in {1, 2} THEN 1 ELSE Null]
    /\ nextRoom = 1
    /\ h = [p \in Procs |-> Idle]
    /\ reqs = [u \in Users |-> 0]
    /\ cancels = [u \in Users |-> 0]
    /\ cancelled = {}
    /\ raced = {}
    /\ mv = [p \in MProcs |-> MvIdle]
    /\ playersOnResultScreen = << >>
    /\ resultScreenTimeouts = {}
    /\ NoRules
    /\ NoResults

NextMove ==
    \E p \in MProcs :
        \/ \E u \in Users, r \in DOMAIN sessions :
              \E x \in MoveInputs(sessions[r].gameType) : StartMove(p, u, r, x)
        \/ \E u \in Users, r \in DOMAIN sessions : StartLeave(p, u, r)
        \/ MoveGet(p) \/ MoveStats(p) \/ MoveUpdate(p)
        \/ LeaveGet(p) \/ LeaveSet(p) \/ LeaveStats(p)

SpecMove == InitMove /\ [][NextMove]_vars

\* The rule engine on its own: one game of either type, played from its initial
\* state by calls of validateMove and, when the move is valid, makeMove, as the
\* move handlers call them.  userId and the move input range over the players,
\* a user who is no player, targets inside and outside the board and a missing
\* input.  The move counter of the three-in-a-row state is capped at MaxPlies.
RuleInputs(gameType) ==
    IF gameType = "tictactoe" THEN {-1, 0, 1, 2, 9, Undefined}
    ELSE {-1, 0, 1, COLS, Undefined}

RuleMove(userId, input) ==
    LET validation == gmValidateMove(rg.gameType, rg.gameState, userId, input)
    IN /\ rg.gameType = "tictactoe" => rg.gameState.moves < MaxPlies
       /\ rv' = [userId |-> userId, input |-> input, validation |-> validation]
       /\ rg' = IF validation.valid
                THEN [rg EXCEPT !.gameState =
                         gmMakeMove(rg.gameType, rg.gameState, userId, input)]
                ELSE rg
       /\ UNCHANGED <<queue, sessions, userSession, nextRoom, mmVars, gameVars, resVars, made>>

InitRules ==
    /\ \E gameType \in {"connect-four", "tictactoe"} :
          rg = [ gameType  |-> gameType,
                 gameState |-> IF gameType = "tictactoe"
                               THEN tttCreateInitialGameState(<<1, 2>>)
                               ELSE createInitialGameState(<<1, 2>>) ]
    /\ rv = RuleIdle
    /\ made = NoRoomId
    /\ queue = << >>
    /\ sessions = << >>
    /\ userSession = [u \in Users |-> Null]
    /\ nextRoom = 0
    /\ h = [p \in Procs |-> Idle]
    /\ reqs = [u \in Users |-> 0]
    /\ cancels = [u \in Users |-> 0]
    /\ cancelled = {}
    /\ raced = {}
    /\ mv = [p \in MProcs |-> MvIdle]
    /\ playersOnResultScreen = << >>
    /\ resultScreenTimeouts = {}
    /\ accepted = << >>
    /\ stats = ZeroStats
    /\ NoResults

NextRules == \E userId \in Users : \E input \in RuleInputs(rg.gameType) : RuleMove(userId, input)

SpecRules == InitRules /\ [][NextRules]_vars

\* Three-in-a-row played with targets on the board only: every board that valid
\* alternating moves reach.
InitPlay == InitRules /\ rg.gameType = "tictactoe"
NextPlay == \E userId \in Users : \E index \in 0..8 : RuleMove(userId, index)
SpecPlay == InitPlay /\ [][NextPlay]_vars

\* Four-in-a-row played on all seven columns.  A game starts from the initial
\* state and its players first play, in turn, the columns of a script that
\* brings it to the opening, to a position short of a horizontal, a vertical or
\* either diagonal line, or to a board with three empty cells; from there the
\* players and a user who is no player submit columns 0..6 and column 7, at
\* most MaxFourPlies of which are played (limit = the pieces on the board when
\* play stops).  Every scripted move is valid, so the pieces on the board tell
\* how far the script has been played.
FourPreludes ==
    { << >>,
      <<0, 0, 1, 1, 2>>,
      <<0, 1, 0, 1, 0, 1>>,
      <<0, 1, 1, 2, 2, 3, 2, 3, 3>>,
      <<6, 5, 5, 4, 4, 3, 4, 3, 3>>,
      <<5, 4, 5, 0, 6, 2, 4, 5, 5, 0, 4, 1, 1, 0, 4, 5, 6, 5, 3, 1, 1, 2, 2, 6, 2, 6,
        6, 3, 6, 2, 0, 3, 0, 3, 3, 4, 3, 1, 4>> }

InitFour ==
    /\ \E prelude \in FourPreludes :
          rg = [ gameType  |-> "connect-four",
                 gameState |-> createInitialGameState(<<1, 2>>),
                 script    |-> prelude,
                 limit     |-> Len(prelude) + MaxFourPlies ]
    /\ rv = RuleIdle
    /\ made = NoRoomId
    /\ queue = << >>
    /\ sessions = << >>
    /\ userSession = [u \in Users |-> Null]
    /\ nextRoom = 0
    /\ h = [p \in Procs |-> Idle]
    /\ reqs = [u \in Users |-> 0]
    /\ cancels = [u \in Users |-> 0]
    /\ cancelled = {}
    /\ raced = {}
    /\ mv = [p \in MProcs |-> MvIdle]
    /\ playersOnResultScreen = << >>
    /\ resultScreenTimeouts = {}
    /\ accepted = << >>
    /\ stats = ZeroStats
    /\ NoResults

\* the player whose turn it is plays the next column of the script
FourScripted ==
    /\ Pieces(rg) < Len(rg.script)
    /\ RuleMove(rg.gameState.players[rg.gameState.currentPlayer + 1],
                rg.script[Pieces(rg) + 1])

FourMove(userId, column) ==
    /\ Len(rg.script) <= Pieces(rg) /\ Pieces(rg) < rg.limit
    /\ RuleMove(userId, column)

NextFour ==
    \/ FourScripted
    \/ \E userId \in Users : \E column \in 0..COLS : FourMove(userId, column)
SpecFour == InitFour /\ [][NextFour]_vars

\* Room ids on their own: a session is created by BaseGame.createMatch for a
\* registered game type, or by handleMatchmaking of games/tictactoe.js, with
\* some timestamp and random suffix; cleanupResultScreen then derives the game
\* type, and with it the session key and the queue key, from the bare roomId.
CreateRoomId(gameType, stamp, random) ==
    /\ made' = [by |-> "createMatch", gameType |-> gameType,
                roomId |-> createMatchRoomId(gameType, stamp, random), ran |-> FALSE,
                derived |-> << >>]
    /\ UNCHANGED <<queue, sessions, userSession, nextRoom, mmVars, gameVars, resVars, rg, rv>>
LegacyRoomId(stamp, random) ==
    /\ made' = [by |-> "tictactoe.js", gameType |-> Tictactoe,
                roomId |-> legacyRoomId(stamp, random), ran |-> FALSE, derived |-> << >>]
    /\ UNCHANGED <<queue, sessions, userSession, nextRoom, mmVars, gameVars, resVars, rg, rv>>
DeriveGameType ==
    /\ made.by # "none" /\ ~made.ran
    /\ made' = [made EXCEPT !.ran = TRUE, !.derived = cleanupGameType(made.roomId)]
    /\ UNCHANGED <<queue, sessions, userSession, nextRoom, mmVars, gameVars, resVars, rg, rv>>

NextRoomId ==
    \/ \E gameType \in GameTypes, stamp \in Stamps, random \in Randoms :
          CreateRoomId(gameType, stamp, random)
    \/ \E stamp \in Stamps, random \in Randoms : LegacyRoomId(stamp, random)
    \/ DeriveGameType
SpecRoomId == Init /\ [][NextRoomId]_vars

\* The result phase: one room, one move from its end for either player, with
\* the move, leave and leave-result handlers and the cleanup timer.  The queue
\* of the room's game type is empty or holds a waiting user and a stray entry
\* of player 1.
ResultInputs(gameType) == IF gameType = "tictactoe" THEN {2, 6} ELSE {0, 3}

InitResult ==
    /\ queue \in {<< >>, <<3, 1>>}
    /\ \E start \in {StartSession("connect-four", <<0, 1, 0, 1, 0, 1>>),
                     StartSession("tictactoe", <<0, 3, 1, 4>>)} :
          /\ sessions = [r \in {1} |-> start]
          /\ accepted = [r \in {1} |-> Pieces(start)]
          /\ stats = ZeroStats
    /\ userSession = [u \in Users |-> IF u \in {1, 2} THEN 1 ELSE Null]
    /\ nextRoom = 1
    /\ h = [p \in Procs |-> Idle]
    /\ reqs = [u \in Users |-> 0]
    /\ cancels = [u \in Users |-> 0]
    /\ cancelled = {}
    /\ raced = {}
    /\ mv = [p \in MProcs |-> MvIdle]
    /\ playersOnResultScreen = << >>
    /\ resultScreenTimeouts = {}
    /\ NoRules
    /\ NoResults

NextResult ==
    \/ \E p \in MProcs :
        \/ \E r \in DOMAIN sessions : \E u \in PlayersOf(r) :
              \E x \in ResultInputs(sessions[r].gameType) : StartMove(p, u, r, x)
        \/ \E r \in DOMAIN sessions : \E u \in PlayersOf(r) : StartLeave(p, u, r)
        \/ MoveGet(p) \/ MoveStats(p) \/ MoveUpdate(p)
        \/ LeaveGet(p) \/ LeaveSet(p) \/ LeaveStats(p)
    \/ \E p \in RProcs :
        \/ \E u \in Users, r \in 1..nextRoom : StartLeaveResult(p, u, r)
        \/ \E r \in 1..nextRoom : TimerFire(p, r)
        \/ \E r \in 1..nextRoom : StartCleanup(p, r)
        \/ LrDelMap(p)
        \/ CleanupGet(p) \/ CleanupDelSess(p) \/ CleanupDelX(p) \/ CleanupDelO(p)
        \/ CleanupLRange(p) \/ CleanupLRem(p)

SpecResult == InitResult /\ [][NextResult]_vars

\* One finished room on its result screen: the session as the finishing move
\* persisted it, the residency Set and the pending timer as that move created
\* them; leave-result calls, the cleanup endpoint and the timer act on it.
FinishedSession(gameType, inputs) ==
    [StartSession(gameType, inputs) EXCEPT !.status = "finished"]

InitReclaim ==
    /\ queue \in {<< >>, <<3, 1>>}
    /\ \E done \in {FinishedSession("connect-four", <<0, 1, 0, 1, 0, 1, 0>>),
                    FinishedSession("tictactoe", <<0, 3, 1, 4, 2>>)} :
          /\ sessions = [r \in {1} |-> done]
          /\ accepted = [r \in {1} |-> Pieces(done)]
          /\ stats = ZeroStats
          /\ playersOnResultScreen =
                [r \in {1} |-> {PlayerX(done.gameState), PlayerO(done.gameState)}]
    /\ resultScreenTimeouts = {1}
    /\ inits = [r \in {1} |-> 1]
    /\ userSession = [u \in Users |-> IF u \in {1, 2} THEN 1 ELSE Null]
    /\ nextRoom = 1
    /\ h = [p \in Procs |-> Idle]
    /\ reqs = [u \in Users |-> 0]
    /\ cancels = [u \in Users |-> 0]
    /\ cancelled = {}
    /\ raced = {}
    /\ mv = [p \in MProcs |-> MvIdle]
    /\ NoRules
    /\ rs = [p \in RProcs |-> RsIdle] /\ timerFired = {}

NextReclaim ==
    \E p \in RProcs :
        \/ \E u \in Users, r \in 1..nextRoom : StartLeaveResult(p, u, r)
        \/ \E r \in 1..nextRoom : TimerFire(p, r)
        \/ \E r \in 1..nextRoom : StartCleanup(p, r)
        \/ LrDelMap(p)
        \/ CleanupGet(p) \/ CleanupDelSess(p) \/ CleanupDelX(p) \/ CleanupDelO(p)
        \/ CleanupLRange(p) \/ CleanupLRem(p)

SpecReclaim == InitReclaim /\ [][NextReclaim]_vars

\* the room of the result phase and its two players (StartSession)
TheRoom == 1
RoomPlayers == {1, 2}

\* The result phase with the players polling their matchmaking status.
NextPoll ==
    \/ NextResult
    \/ \E p \in RProcs :
        \/ \E u \in RoomPlayers : StartPoll(p, u)
        \/ PollGetMap(p) \/ PollGetSession(p) \/ PollDelStale(p) \/ PollDel(p)

SpecPoll == InitResult /\ [][NextPoll]_vars

Requests == {p \in Procs : h[p].op = "request"}

\* Matchmaking with one user already waiting: user 1 has called requestMatch
\* on an empty queue, handleMatchmaking has pushed the entry, tryMatchPlayers
\* has found the queue shorter than getMinPlayers() and the handler has
\* returned {matched: false}.  Every other entry is pushed after that one.
FirstWaiting == 1
InitFifo ==
    /\ NoGames
    /\ queue = <<FirstWaiting>>
    /\ sessions = << >>
    /\ userSession = [u \in Users |-> Null]
    /\ nextRoom = 0
    /\ h = [p \in Procs |->
              IF p = 1 THEN [Idle EXCEPT !.op = "request", !.user = FirstWaiting,
                                         !.pc = "done"]
              ELSE Idle]
    /\ reqs = [u \in Users |-> IF u = FirstWaiting THEN 1 ELSE 0]
    /\ cancels = [u \in Users |-> 0]
    /\ cancelled = {}
    /\ raced = {}

SpecFifo == InitFifo /\ [][Next]_vars

\* A finished room on its result screen while its players leave it and ask
\* for a new match.  A leave-result call starts when no requestMatch is
\* running and a requestMatch when no leave-result call is: the requests come
\* between the calls.  At most MaxRetryRequests requestMatch calls are made.
NextRetry ==
    \/ \E p \in Procs :
        \/ \E u \in Users : /\ InFlight = 0
                             /\ Cardinality(Requests) < MaxRetryRequests
                             /\ StartRequestMatch(p, u)
        \/ ReqLRange(p) \/ ReqLRem(p) \/ ReqDelMap(p) \/ ReqGetMap(p) \/ ReqDefensive(p)
        \/ ReqRPush(p) \/ TryQLen(p) \/ TryPop(p) \/ TryRequeue(p)
        \/ CreateSetSession(p) \/ CreateSetMap(p)
    \/ \E p \in RProcs :
        \/ \E u \in Users : AllReturned /\ StartLeaveResult(p, u, TheRoom)
        \/ LrDelMap(p)
        \/ CleanupGet(p) \/ CleanupDelSess(p) \/ CleanupDelX(p) \/ CleanupDelO(p)
        \/ CleanupLRange(p) \/ CleanupLRem(p)

SpecRetry == InitReclaim /\ [][NextRetry]_vars

\* ------------------------------------------------------------------ claims
NoCancelEver == \A u \in Users : cancels[u] = 0
AfterRPush == {"qLen", "pop", "requeue", "setSess", "setMap"}

\* C1: two concurrent requestMatch calls by two distinct users on an empty queue
\* with no sessions: once both have returned, exactly one session exists, it
\* holds both users, and neither user is left in the queue.
C1_TwoRequestsOneSession ==
    ( /\ AllReturned
      /\ Requests = {1, 2} /\ h[1].user # h[2].user
      /\ \A p \in Procs \ {1, 2} : h[p].op = "idle" )
    => /\ Cardinality(DOMAIN sessions) = 1
       /\ \A r \in DOMAIN sessions : PlayersOf(r) = {h[1].user, h[2].user}
       /\ queue = << >>

\* C2: a requestMatch by a user whose index entry points to an existing Active
\* session (no cancel involved) answers {matched: true} with that roomId, and
\* neither enqueues the user nor creates a session.
C2_RepollReturnsSameRoom ==
    \A p \in Requests :
        (NoCancelEver /\ h[p].had # Null)
        => /\ h[p].pc \notin AfterRPush
           /\ h[p].pc = "done" => (h[p].matched /\ h[p].roomId = h[p].had)

\* C3: requestMatch answers {matched: true, roomId} only to a caller who is one
\* of the players of session roomId.
C3_MatchedOnlyToPlayers ==
    \A p \in Requests :
        (h[p].pc = "done" /\ h[p].matched)
        => (SessionExists(h[p].roomId) /\ h[p].user \in PlayersOf(h[p].roomId))

\* C4: every session has two distinct userIds in its player list.
C4_DistinctPlayers ==
    \A r \in DOMAIN sessions :
        \A i, j \in 1..Len(sessions[r].players) :
            i # j => sessions[r].players[i] # sessions[r].players[j]

\* C5: a user is a player of at most one Active session.
C5_OneActiveSessionPerUser ==
    \A u \in Users : Cardinality(ActiveSessionsOf(u)) <= 1

\* C6: the queue holds at most one entry per userId.
C6_QueueUniquePerUser ==
    \A u \in Users : Count(queue, u) <= 1

\* C7: with requestMatch calls only, once all calls have returned every user who
\* requested a match is in the queue exactly once or a player of exactly one
\* session.
C7_NoEntryLostOrDuplicated ==
    (AllReturned /\ NoCancelEver)
    => \A u \in Users :
          reqs[u] > 0 => (Count(queue, u) = 1 \/ Cardinality(SessionsOf(u)) = 1)

\* C8: a user whose cancelMatchmaking has returned and who has not requested a
\* match since is not a player of a session built from a dequeue that overlapped
\* or followed that cancel.
C8_CancelExcludesDequeue ==
    \A x \in raced : x[2] \notin cancelled

\* C9: submitMove is serialized per room, so no accepted move is lost: once the
\* move handlers have returned, the number of moves answered with the updated
\* session equals the number of pieces on the persisted board.
C9_NoLostMove ==
    AllMovesReturned
    => \A r \in DOMAIN sessions : accepted[r] = Pieces(sessions[r])

\* C10: once a session is Finished, its status and gameState do not change
\* again until the session is deleted.
C10_FinishedIsFinal ==
    [][ \A r \in DOMAIN sessions :
          sessions[r].status = "finished"
          => \/ r \notin DOMAIN sessions'
             \/ /\ sessions'[r].status = "finished"
                /\ sessions'[r].gameState = sessions[r].gameState ]_vars

\* C11: a submitMove rejected because it is not the caller's turn leaves the
\* persisted sessions (gameState and status) as they were: the step in which a
\* move handler answers "Not your turn" changes no session.
C11_RejectedMoveWritesNothing ==
    [][ \A p \in MProcs :
          ( /\ mv[p].op = "move" /\ mv[p].pc # "done"
            /\ mv'[p].pc = "done" /\ mv'[p].answer = "Not your turn" )
          => sessions' = sessions ]_vars
C11_Witness ==
    \E p \in MProcs :
        /\ mv[p].op = "move" /\ mv[p].pc = "done" /\ mv[p].answer = "Not your turn"
        /\ SessionExists(mv[p].room)

\* The four-in-a-row position read off the board alone: the pieces of a column,
\* four equal pieces in a line, and whose turn it is (the players alternate).
C4PiecesIn(board, c) == Cardinality({r \in 0..(ROWS - 1) : board[r][c] # Null})
C4Total(board) == Cardinality({rc \in (0..(ROWS - 1)) \X (0..(COLS - 1)) :
                                  board[rc[1]][rc[2]] # Null})
C4HasFour(board) ==
    \E r \in 0..(ROWS - 1), c \in 0..(COLS - 1) :
        \E d \in {<<0, 1>>, <<1, 0>>, <<1, 1>>, <<1, -1>>} :
            /\ board[r][c] # Null
            /\ \A k \in 1..3 :
                  /\ r + k * d[1] \in 0..(ROWS - 1)
                  /\ c + k * d[2] \in 0..(COLS - 1)
                  /\ board[r + k * d[1]][c + k * d[2]] = board[r][c]
C4Decided(board) == C4HasFour(board) \/ C4Total(board) = ROWS * COLS
C4TurnOf(gameState) == gameState.players[(C4Total(gameState.board) % 2) + 1]

\* C12: four-in-a-row validateMove answers valid exactly when the game is not
\* decided, userId is the player to move, the column is an integer in 0..6 and
\* that column is not full; a rejected call leaves the state as it was.
C12_ValidateMoveExact ==
    [][ rg.gameType = "connect-four" =>
          /\ rv'.validation.valid <=>
                ( /\ ~C4Decided(rg.gameState.board)
                  /\ rv'.userId = C4TurnOf(rg.gameState)
                  /\ rv'.input \in 0..(COLS - 1)
                  /\ C4PiecesIn(rg.gameState.board, rv'.input) < ROWS )
          /\ ~rv'.validation.valid => rg' = rg ]_vars
C12_Witness ==
    /\ rg.gameType = "connect-four"
    /\ rv.userId = C4TurnOf(rg.gameState)
    /\ rv.input \in 0..(COLS - 1)
    /\ rv.validation.error = "Column is full"

\* The three-in-a-row position read off the board alone: the 3 rows, 3 columns
\* and 2 diagonals of the 3 x 3 grid, and a line held by one marker.
TttGridLines ==
    {{3 * r + c : c \in 0..2} : r \in 0..2}
    \cup {{3 * r + c : r \in 0..2} : c \in 0..2}
    \cup {{4 * k : k \in 0..2}, {2 * k + 2 : k \in 0..2}}
TttUniform(board, mark) == \E l \in TttGridLines : \A i \in l : board[i] = mark
TttHasLine(board) == TttUniform(board, "X") \/ TttUniform(board, "O")
TttFull(board) == \A i \in 0..8 : board[i] # NoMark
TttToMove(gameState) ==
    IF gameState.currentPlayer = "X" THEN gameState.playerX ELSE gameState.playerO

\* C13: a three-in-a-row move is rejected when the game has a winner or a draw,
\* when it is not the caller's turn, when the cell is occupied and when the
\* index is outside 0..8; the stored board has exactly 9 cells.
C13_TttRejectsBadMoves ==
    [][ rg.gameType = "tictactoe" =>
          /\ ( \/ TttHasLine(rg.gameState.board) \/ TttFull(rg.gameState.board)
               \/ rv'.userId # TttToMove(rg.gameState)
               \/ rv'.input \notin 0..8
               \/ rg.gameState.board[rv'.input] # NoMark )
             => ~rv'.validation.valid
          /\ DOMAIN rg'.gameState.board = 0..8 ]_vars

\* C14: on every board that valid alternating moves reach, the end check reports
\* a winner exactly when one of the 8 lines is held by one marker (and reports
\* that marker), and a draw exactly when the 9 cells are occupied and no line is.
C14_EndCheckExact ==
    rg.gameType = "tictactoe" =>
        LET board == rg.gameState.board
            gameEnd == tttCheckGameEnd(rg.gameState)
        IN /\ tttCheckWinner(board) # NoMark <=> TttHasLine(board)
           /\ gameEnd.winner # NoMark <=> TttHasLine(board)
           /\ gameEnd.winner # NoMark => TttUniform(board, gameEnd.winner)
           /\ gameEnd.isDraw <=> (TttFull(board) /\ ~TttHasLine(board))
           /\ gameEnd.finished <=> (TttHasLine(board) \/ TttFull(board))
C14_Witness ==
    /\ rg.gameType = "tictactoe"
    /\ TttFull(rg.gameState.board) /\ ~TttHasLine(rg.gameState.board)
    /\ tttCheckGameEnd(rg.gameState).isDraw

\* C15: the three-in-a-row move that completes a line ends the game in that
\* same transition with the mover as the winner: the state the move produces
\* carries the mover's marker as winner and the end check reports finished.
C15_WinningMoveEndsGame ==
    [][ ( /\ rg.gameType = "tictactoe"
          /\ rv'.validation.valid
          /\ TttUniform(rg'.gameState.board, rg.gameState.currentPlayer) )
        => /\ rg'.gameState.winner = rg.gameState.currentPlayer
           /\ rv'.userId = IF rg'.gameState.winner = "X" THEN rg'.gameState.playerX
                                                        ELSE rg'.gameState.playerO
           /\ tttCheckGameEnd(rg'.gameState).finished
           /\ ~tttCheckGameEnd(rg'.gameState).isDraw ]_vars
\* A:0, B:4, A:1, B:8, A:2 has been played and A (user 1, marker X) has won
C15_Witness ==
    /\ rg.gameType = "tictactoe"
    /\ rg.gameState.board = [i \in 0..8 |-> IF i \in {0, 1, 2} THEN "X"
                                            ELSE IF i \in {4, 8} THEN "O" ELSE NoMark]
    /\ rv.userId = 1 /\ rv.input = 2 /\ rv.validation.valid
    /\ rg.gameState.winner = "X" /\ rg.gameState.playerX = 1

\* The room of the result phase and its two players (StartSession), and the
\* leave-result calls that were answered with success.
HasLeft(u) ==
    \E p \in RProcs : /\ rs[p].op = "leaveResult" /\ rs[p].user = u /\ rs[p].room = TheRoom
                       /\ rs[p].pc = "done" /\ rs[p].answer = "Left result screen"
NoTimerRan == \A p \in RProcs : rs[p].op # "timer"
\* The match has ended and is at rest: the one move handler that ran is the one
\* that finished the match, it had returned before any leave-result call or
\* timer callback started, and everything has returned.
MatchEndedAtRest ==
    /\ InFlight = 0
    /\ Cardinality({q \in MProcs : mv[q].op # "idle"}) = 1
    /\ mv[1].op = "move" /\ mv[1].answer = "ok" /\ mv[1].game.status = "finished"
    /\ \A p \in RProcs : rs[p].op # "idle" => rs[p].quiet
Reclaimed ==
    /\ ~SessionExists(TheRoom)
    /\ \A u \in RoomPlayers : userSession[u] # TheRoom

\* C16: after a match has ended, once both players have called leaveResult (and
\* the calls have returned) the session and both players' index entries are
\* deleted, without any timer firing.
C16_BothLeftReclaims ==
    ( /\ MatchEndedAtRest /\ NoTimerRan
      /\ \A u \in RoomPlayers : HasLeft(u) )
    => Reclaimed

\* C17: when a match has finished, no player calls leaveResult, and the cleanup
\* timer has fired and its callback has run, the session and both players'
\* index entries are deleted.
C17_TimerReclaims ==
    ( /\ MatchEndedAtRest
      /\ \A p \in RProcs : rs[p].op # "leaveResult"
      /\ \E p \in RProcs : rs[p].op = "timer" /\ rs[p].room = TheRoom /\ rs[p].pc = "done" )
    => Reclaimed

\* C18: when a session first becomes Finished its residency entry is created
\* exactly once, holding exactly the userIds of the session's two players, with
\* one timer; while the entry exists no later request re-initialises it.
C18_ResidencyCreatedOnce ==
    [][ \A r \in 1..nextRoom :
          /\ (~Tracked(r) /\ r \in DOMAIN playersOnResultScreen')
             => /\ \E p \in MProcs :
                      /\ mv[p].room = r /\ mv'[p] # mv[p]
                      /\ playersOnResultScreen'[r] =
                            {mv[p].game.players[i] : i \in 1..Len(mv[p].game.players)}
                /\ r \in resultScreenTimeouts'
                /\ inits'[r] = 1
          /\ (Tracked(r) /\ r \in DOMAIN playersOnResultScreen')
             => /\ playersOnResultScreen'[r] \subseteq playersOnResultScreen[r]
                /\ inits'[r] = inits[r] ]_vars

\* C19: leaveResult by a player of the room's residency set removes exactly that
\* player from the set and deletes exactly that player's index entry; while the
\* set is non-empty the call ends there, and the session, the other player's
\* membership and the other player's index entry stay as they are.
C19_LeaveResultFrame ==
    [][ \A p \in RProcs :
          /\ ( /\ rs[p].op = "idle" /\ rs'[p].op = "leaveResult"
               /\ Tracked(rs'[p].room)
               /\ rs'[p].user \in playersOnResultScreen[rs'[p].room] )
             => /\ playersOnResultScreen' =
                      [playersOnResultScreen EXCEPT ![rs'[p].room] = @ \ {rs'[p].user}]
                /\ sessions' = sessions /\ userSession' = userSession
                /\ resultScreenTimeouts' = resultScreenTimeouts
          /\ ( rs[p].op = "leaveResult" /\ rs[p].pc = "delMap" /\ rs'[p].pc # "delMap" )
             => /\ userSession' = [userSession EXCEPT ![rs[p].user] = Null]
                /\ sessions' = sessions
                /\ playersOnResultScreen' = playersOnResultScreen
                /\ resultScreenTimeouts' = resultScreenTimeouts
                /\ ( /\ Tracked(rs[p].room) /\ ~rs[p].detached
                     /\ playersOnResultScreen[rs[p].room] # {} )
                   => rs'[p].pc = "done" ]_vars
C19_Witness ==
    /\ HasLeft(1) /\ InFlight = 0
    /\ Tracked(TheRoom) /\ playersOnResultScreen[TheRoom] = {2}
    /\ SessionExists(TheRoom)
    /\ userSession[1] = Null /\ userSession[2] = TheRoom

\* C20: when the cleanup timer has fired for a room whose residency set was not
\* empty and its callback has run, the session does not exist, neither player
\* has an index entry for the room or an entry in the queue, and the residency
\* entry is gone.
C20_TimerReclaimsAll ==
    ( /\ MatchEndedAtRest
      /\ \E p \in RProcs : /\ rs[p].op = "timer" /\ rs[p].room = TheRoom
                           /\ rs[p].pc = "done" /\ rs[p].size > 0 )
    => /\ Reclaimed
       /\ \A u \in RoomPlayers : ~InSeq(queue, u)
       /\ ~Tracked(TheRoom)

\* A room that has been reclaimed: it was tracked and its tracking has been
\* removed (which only the end of cleanupResultScreen does).
WasReclaimed(r) == r \in DOMAIN inits /\ ~Tracked(r)
CleanupPcs == {"cGet", "cDelSess", "cDelX", "cDelO", "cLRange", "cLRem"}

\* C21: reclaim is idempotent: a cleanup invoked (by the cleanup endpoint, by a
\* timer callback or by the leaveResult that finds its set empty) on a room
\* that has already been reclaimed changes no session, no queue entry, no
\* tracking state and no index entry (other than the one the leaveResult itself
\* deletes before it calls cleanup) and the caller answers with success.
C21_ReclaimIdempotent ==
    [][ \A p \in RProcs :
          ( /\ rs[p].pc \in {"idle", "delMap"} /\ rs'[p].pc # rs[p].pc
            /\ rs'[p].op \in {"cleanup", "timer", "leaveResult"}
            /\ rs'[p].answer # "Result screen not found"
            /\ WasReclaimed(rs'[p].room)
            /\ rs[p].pc = "delMap" => (rs[p].detached /\ rs[p].size = 0) )
          => /\ sessions' = sessions /\ queue' = queue
             /\ playersOnResultScreen' = playersOnResultScreen
             /\ resultScreenTimeouts' = resultScreenTimeouts
             /\ userSession' = IF rs[p].pc = "delMap"
                               THEN [userSession EXCEPT ![rs[p].user] = Null]
                               ELSE userSession
             /\ rs'[p].pc = "done" /\ rs'[p].answer = RsAnswer(rs'[p].op) ]_vars
C21_Witness ==
    \E p, q \in RProcs :
        /\ rs[q].op = "timer" /\ rs[q].pc = "done" /\ rs[q].game # NoGame
        /\ rs[p].op = "cleanup" /\ rs[p].pc = "done" /\ rs[p].detached
        /\ rs[p].room = rs[q].room /\ WasReclaimed(rs[p].room)
        /\ rs[p].answer = "Session cleaned up"

\* a handler whose cleanupResultScreen has deleted the session of room r (and
\* gone on to the index entries and the queue)
Deleted(p, r) ==
    /\ rs[p].room = r /\ rs[p].game # NoGame
    /\ rs[p].pc \in (CleanupPcs \ {"cGet", "cDelSess"}) \cup {"done"}

\* C22: when the timer callback and the leaveResult that empties the residency
\* set run concurrently for the same room, at most one of the two performs the
\* deletions.
C22_OneReclaimDeletes ==
    \A p, q \in RProcs :
        (rs[p].op = "timer" /\ rs[q].op = "leaveResult")
        => ~(Deleted(p, TheRoom) /\ Deleted(q, TheRoom))

\* the player a session records as its winner, and the opponent of a player
WinnerOf(session) ==
    IF session.gameType = "tictactoe"
    THEN IF session.gameState.winner = "X" THEN session.gameState.playerX
         ELSE IF session.gameState.winner = "O" THEN session.gameState.playerO
         ELSE Null
    ELSE session.gameState.winner
OpponentOf(session, u) == CHOOSE v \in {session.players[1], session.players[2]} : v # u
Unfinished(session) ==
    /\ session.status = "active" /\ ~WinnerSet(session)
    /\ session.gameType # "tictactoe" => ~session.gameState.finished

\* C23: for a session of any registered game type that is not yet finished,
\* leaveMatch(roomId, A) by player A makes the session Finished with the other
\* player B recorded as winner, whatever the board contains: the handler that
\* reads such a session goes on to persist it as finished and won by B.
C23_ForfeitFinishes ==
    [][ \A p \in MProcs :
          /\ ( /\ mv[p].op = "leave" /\ mv[p].pc = "get" /\ mv'[p].pc # "get"
               /\ SessionExists(mv[p].room)
               /\ Unfinished(sessions[mv[p].room])
               /\ mv[p].user \in PlayersOf(mv[p].room) )
             => /\ mv'[p].pc = "set"
                /\ mv'[p].game.status = "finished"
                /\ WinnerOf(mv'[p].game) = OpponentOf(sessions[mv[p].room], mv[p].user)
          /\ ( mv[p].op = "leave" /\ mv[p].pc = "set" /\ mv'[p].pc # "set" )
             => sessions'[mv[p].room] = mv[p].game ]_vars

StatDelta(u) ==
    [gamesPlayed |-> stats'[u].gamesPlayed - stats[u].gamesPlayed,
     wins        |-> stats'[u].wins - stats[u].wins,
     losses      |-> stats'[u].losses - stats[u].losses,
     draws       |-> stats'[u].draws - stats[u].draws]

\* C25: on a forfeit the statistics increments are one game played for both
\* players, one loss and no win for the forfeiting player, one win and no loss
\* for the opponent and no draw for either, regardless of the in-game state
\* (when the statistics store accepts the update).
C25_ForfeitStats ==
    [][ \A p \in MProcs :
          ( /\ mv[p].op = "leave" /\ mv[p].pc = "stats" /\ mv'[p].pc = "done"
            /\ ~mv'[p].threw )
          => LET A == mv[p].user
                 B == OpponentOf(mv[p].game, A)
             IN /\ StatDelta(A) = [gamesPlayed |-> 1, wins |-> 0, losses |-> 1, draws |-> 0]
                /\ StatDelta(B) = [gamesPlayed |-> 1, wins |-> 1, losses |-> 0, draws |-> 0]
                /\ \A u \in Users \ {A, B} : StatDelta(u) = ZeroStat ]_vars
C25_Witness ==
    \E p \in MProcs :
        /\ mv[p].op = "leave" /\ mv[p].pc = "done" /\ ~mv[p].threw
        /\ mv[p].answer = "Player left, opponent wins"
        /\ Pieces(mv[p].game) = 4
        /\ stats[mv[p].user].losses = 1 /\ stats[mv[p].user].gamesPlayed = 1

\* C26: pollMatchStatus(userId) answers matched with the indexed roomId exactly
\* when the index entry it read exists and the session it names exists and is
\* Active, or Finished with a residency entry for that room; with an index
\* entry and a session that is absent, or Finished without residency entry, it
\* deletes the index entry and answers not matched.
C26_PollExact ==
    [][ \A p \in RProcs :
          /\ ( rs[p].op = "poll" /\ rs[p].pc = "pGetSess" /\ rs'[p].pc # "pGetSess" )
             => LET r == rs[p].room
                    valid == /\ SessionExists(r)
                             /\ \/ sessions[r].status = "active"
                                \/ sessions[r].status = "finished" /\ Tracked(r)
                IN IF valid
                   THEN /\ rs'[p].pc = "done" /\ rs'[p].answer = "matched"
                        /\ rs'[p].room = r /\ userSession' = userSession
                   ELSE rs'[p].pc \in {"pDelStale", "pDel"}
          /\ ( rs[p].op = "poll" /\ rs[p].pc \in {"pDelStale", "pDel"} )
             => \/ rs'[p] = rs[p]
                \/ /\ userSession' = [userSession EXCEPT ![rs[p].user] = Null]
                   /\ rs'[p].pc = "done" => rs'[p].answer = "not matched"
                   /\ rs'[p].pc \in {"pDel", "done"}
          /\ ( rs'[p].op = "poll" /\ rs'[p].pc = "done" /\ rs[p].pc # "done"
               /\ rs'[p].answer = "matched" )
             => rs[p].pc = "pGetSess" ]_vars
C26_Witness ==
    \E q \in RProcs :
        /\ rs[q].op = "poll" /\ rs[q].pc = "done" /\ rs[q].answer = "not matched"
        /\ rs[q].room = TheRoom /\ ~SessionExists(TheRoom)
        /\ userSession[rs[q].user] = Null

\* no handler of any kind is in the middle of an operation
Quiescent == InFlight = 0 /\ AllReturned

\* C27: whenever no request handler is in the middle of an operation, every
\* existing index entry userId -> roomId refers to a session that exists and
\* lists userId among its players.
C27_IndexResolves ==
    Quiescent =>
        \A u \in Users :
            userSession[u] # Null
            => SessionExists(userSession[u]) /\ u \in PlayersOf(userSession[u])

\* the index entry of v names an existing Active session that v plays in
HasLiveEntry(v) ==
    /\ userSession[v] # Null /\ SessionExists(userSession[v])
    /\ sessions[userSession[v]].status = "active"
    /\ v \in PlayersOf(userSession[v])

\* C28: leaveResult and pollMatchStatus are safe under retry: a repetition of a
\* call that had completed, whatever requests ran in between (a new
\* requestMatch by the same user included), has no effect beyond that of the
\* first call; in particular no step of the repeated call removes the index
\* entry of an Active session.
C28_RetrySafe ==
    [][ \A p \in RProcs :
          ( /\ rs[p].op \in {"leaveResult", "poll"} /\ rs[p].retry
            /\ rs'[p].pc # rs[p].pc )
          => \A v \in Users : HasLiveEntry(v) => userSession'[v] = userSession[v] ]_vars

\* C29: a failure of the statistics store never fails the primary operation.
\* When the updatePlayerStats call of a game-ending move throws, the handler's
\* step still leaves the room tracked on the result screen with its timer
\* armed and goes on to updateSession, which writes the session with status
\* "finished" and answers with the updated session; when the call of a forfeit
\* throws, the handler still leaves the room tracked with its timer armed and
\* answers "Player left, opponent wins".
C29_StatsFailureHarmless ==
    [][ \A p \in MProcs :
          /\ ( mv[p].op = "move" /\ mv[p].pc = "stats" /\ mv'[p] # mv[p] /\ mv'[p].threw )
              => /\ mv'[p].pc = "update" /\ mv'[p].game.status = "finished"
                 /\ mv[p].room \in DOMAIN playersOnResultScreen'
                 /\ mv[p].room \in resultScreenTimeouts'
          /\ ( mv[p].op = "move" /\ mv[p].pc = "update" /\ mv[p].threw /\ mv'[p] # mv[p] )
              => /\ SessionExists(mv[p].room)'
                 /\ sessions'[mv[p].room].status = "finished"
                 /\ mv'[p].pc = "done" /\ mv'[p].answer = "ok"
          /\ ( mv[p].op = "leave" /\ mv[p].pc = "stats" /\ mv'[p] # mv[p] /\ mv'[p].threw )
              => /\ mv'[p].pc = "done" /\ mv'[p].answer = "Player left, opponent wins"
                 /\ mv[p].room \in DOMAIN playersOnResultScreen'
                 /\ mv[p].room \in resultScreenTimeouts' ]_vars
\* a game-ending move and a forfeit have both returned their success answer
\* after their updatePlayerStats call threw
C29_Witness ==
    /\ \E p \in MProcs : /\ mv[p].op = "move" /\ mv[p].pc = "done" /\ mv[p].threw
                          /\ mv[p].answer = "ok"
                          /\ sessions[mv[p].room].status = "finished"
                          /\ mv[p].room \in DOMAIN playersOnResultScreen
    /\ \E p \in MProcs : /\ mv[p].op = "leave" /\ mv[p].pc = "done" /\ mv[p].threw
                          /\ mv[p].answer = "Player left, opponent wins"
                          /\ sessions[mv[p].room].status = "finished"

\* u has been placed into a session
Placed(u) == SessionsOf(u) # {}
\* u has called requestMatch once and has never called cancelMatchmaking
RequestedOnce(u) == reqs[u] = 1 /\ cancels[u] = 0

\* C30: matching is first-in-first-out.  User FirstWaiting's entry was pushed
\* before every other entry; while neither FirstWaiting nor a user B has
\* cancelled or requested again, B is in a session only if FirstWaiting has
\* been placed into one too, a partial dequeue that was re-enqueued included.
C30_Fifo ==
    \A b \in Users \ {FirstWaiting} :
        ( RequestedOnce(FirstWaiting) /\ RequestedOnce(b) /\ Placed(b) )
        => Placed(FirstWaiting)

\* The four-in-a-row board read cell by cell: player index i holds four
\* adjacent cells of a row, a column or a diagonal.
C4FourOf(board, i) ==
    \E r \in 0..(ROWS - 1), c \in 0..(COLS - 1) :
        \E d \in {<<0, 1>>, <<1, 0>>, <<1, 1>>, <<1, -1>>} :
            \A k \in 0..3 :
                /\ r + k * d[1] \in 0..(ROWS - 1)
                /\ c + k * d[2] \in 0..(COLS - 1)
                /\ board[r + k * d[1]][c + k * d[2]] = i

\* C31: on every four-in-a-row board that valid moves reach, checkGameEnd
\* reports finished with winner p exactly when p holds four adjacent cells of
\* a row, a column or a diagonal, a draw exactly when nobody does and the
\* board is full, and not finished otherwise; what it reports is what makeMove
\* stored in the state.
C31_FourEndCheckExact ==
    rg.gameType = "connect-four" =>
        LET gameState == rg.gameState
            board == gameState.board
            gameEnd == checkGameEnd(gameState)
            full == C4Total(board) = ROWS * COLS
        IN /\ \A i \in 0..1 :
                 ( gameEnd.finished /\ ~gameEnd.isDraw
                   /\ gameEnd.winner = gameState.players[i + 1] )
                 <=> C4FourOf(board, i)
           /\ (gameEnd.finished /\ gameEnd.isDraw)
                 <=> (full /\ ~C4FourOf(board, 0) /\ ~C4FourOf(board, 1))
           /\ gameEnd.isDraw => gameEnd.winner = Null
           /\ ~gameEnd.finished
                 <=> (~full /\ ~C4FourOf(board, 0) /\ ~C4FourOf(board, 1))
           /\ gameState.finished = gameEnd.finished
           /\ gameState.finished => /\ gameState.winner = gameEnd.winner
                                     /\ gameState.isDraw = gameEnd.isDraw
           /\ ~gameState.finished => gameState.winner = Null /\ ~gameState.isDraw
\* the board is full with no line of four, and the draw is reported and stored
C31_Witness ==
    /\ rg.gameType = "connect-four"
    /\ C4Total(rg.gameState.board) = ROWS * COLS
    /\ ~C4HasFour(rg.gameState.board)
    /\ checkGameEnd(rg.gameState).isDraw /\ rg.gameState.isDraw

\* the number of pieces of player index i on a four-in-a-row board
C4Count(board, i) == Cardinality({rc \in (0..(ROWS - 1)) \X (0..(COLS - 1)) :
                                    board[rc[1]][rc[2]] = i})

\* C39: in four-in-a-row the turns alternate, the first listed player
\* starting: after any sequence of moves submitted one after the other,
\* player 0 has as many pieces as player 1 or one more, and while the game is
\* not finished currentPlayer is 0 when the counts are equal and 1 when
\* player 1 has one piece less.
C39_TurnsAlternate ==
    rg.gameType = "connect-four" =>
        LET n0 == C4Count(rg.gameState.board, 0)
            n1 == C4Count(rg.gameState.board, 1)
        IN /\ n0 - n1 \in {0, 1}
           /\ ~rg.gameState.finished =>
                 rg.gameState.currentPlayer = (IF n0 = n1 THEN 0 ELSE 1)
\* the second player's accepted move has just restored equal counts in a game
\* that goes on, and it is the first player's turn again
C39_Witness ==
    /\ rg.gameType = "connect-four" /\ ~rg.gameState.finished
    /\ rv.validation.valid /\ rv.userId = rg.gameState.players[2]
    /\ C4Count(rg.gameState.board, 0) = C4Count(rg.gameState.board, 1)
    /\ C4Count(rg.gameState.board, 1) > 0
    /\ rg.gameState.currentPlayer = 0

\* every occupied cell is in the bottom row or rests on an occupied cell
C4Gravity(board) ==
    \A r \in 0..(ROWS - 2), c \in 0..(COLS - 1) :
        board[r][c] # Null => board[r + 1][c] # Null
\* the cells in which two boards differ
C4Changed(before, after) ==
    {rc \in (0..(ROWS - 1)) \X (0..(COLS - 1)) : before[rc[1]][rc[2]] # after[rc[1]][rc[2]]}

\* C40: every accepted four-in-a-row move places exactly one piece, the
\* mover's, in the lowest empty row of the chosen column and changes no other
\* cell; in every board reached, each occupied cell is in the bottom row or
\* has an occupied cell directly below it.
C40_PieceFalls ==
    /\ [](rg.gameType = "connect-four" => C4Gravity(rg.gameState.board))
    /\ [][ (rg.gameType = "connect-four" /\ rv'.validation.valid) =>
             LET before == rg.gameState.board
                 after == rg'.gameState.board
                 column == rv'.input
                 row == ROWS - 1 - C4PiecesIn(before, column)
             IN /\ column \in 0..(COLS - 1) /\ row \in 0..(ROWS - 1)
                /\ C4Changed(before, after) = {<<row, column>>}
                /\ before[row][column] = Null
                /\ after[row][column] = findIndex(rg.gameState.players, rv'.userId)
                /\ \A r \in (row + 1)..(ROWS - 1) : before[r][column] # Null ]_vars
\* a piece has been accepted into a column that held two pieces and lies in
\* the third row from the bottom
C40_Witness ==
    /\ rg.gameType = "connect-four" /\ rv.validation.valid
    /\ rv.input \in 0..(COLS - 1)
    /\ C4PiecesIn(rg.gameState.board, rv.input) = 3
    /\ rg.gameState.board[ROWS - 3][rv.input] = findIndex(rg.gameState.players, rv.userId)
    /\ rg.gameState.board[ROWS - 4][rv.input] = Null

\* the rooms that have a residency entry and an armed timer
AwaitingAck == DOMAIN playersOnResultScreen \cap resultScreenTimeouts

\* a cleanupResultScreen run on room r that began while a move or leave handler
\* was still running is about to delete the session
HastyCleanup(r) ==
    \E p \in RProcs : rs[p].pc = "cDelSess" /\ rs[p].room = r /\ ~rs[p].quiet

\* C32: a room only moves Active -> AwaitingAck -> Reclaimed.  While no
\* handler is running, a room with a residency entry and an armed timer has a
\* session whose status is "finished"; and a session is deleted only while
\* its status is "finished" and the room has a residency entry, never while
\* its status is "active" (deletions by a cleanup run that began before the
\* move and leave handlers had returned are left aside).
C32_RoomLifecycle ==
    /\ []( Quiescent =>
             \A r \in AwaitingAck :
                 SessionExists(r) /\ sessions[r].status = "finished" )
    /\ [][ \A r \in DOMAIN sessions :
               (r \notin DOMAIN sessions' /\ ~HastyCleanup(r))
               => (sessions[r].status = "finished" /\ Tracked(r)) ]_vars

QueuedAfterLeaving(v, r) ==
    /\ \E q \in RProcs : /\ rs[q].op = "leaveResult" /\ rs[q].user = v /\ rs[q].room = r
                          /\ rs[q].pc = "done" /\ rs[q].answer = "Left result screen"
                          /\ ~rs[q].queued
    /\ \E q \in Procs : h[q].op = "request" /\ h[q].user = v /\ h[q].pc = "done"
    /\ InSeq(queue, v)

\* C34: reclaiming room R, by the timer or by the last leaveResult, removes
\* only state that belongs to R: no step of its cleanup deletes an index entry
\* that points to another room, and none removes the queue entry that a player
\* of R enqueued by a new requestMatch after leaving R's result screen.
C34_ReclaimFrame ==
    [][ \A p \in RProcs :
          ( /\ rs[p].op \in {"timer", "leaveResult"}
            /\ rs[p].pc \in CleanupPcs /\ rs'[p].pc # rs[p].pc )
          => /\ \A v \in Users :
                   (userSession[v] # Null /\ userSession[v] # rs[p].room)
                   => userSession'[v] = userSession[v]
             /\ \A v \in Users :
                   QueuedAfterLeaving(v, rs[p].room)
                   => Count(queue', v) = Count(queue, v) ]_vars

\* C35: leaveResult(roomId, userId) with a userId that is not in the residency
\* set of roomId (no player of the room, or a player who has left already)
\* changes nothing: in particular its deletion step leaves every index entry
\* that names another room as it was.
C35_StrangerLeaveFrame ==
    [][ \A p \in RProcs :
          ( /\ rs[p].op = "leaveResult" /\ ~rs[p].resident
            /\ rs[p].pc = "delMap" /\ rs'[p].pc # "delMap" )
          => \A v \in Users :
                (userSession[v] # Null /\ userSession[v] # rs[p].room)
                => userSession'[v] = userSession[v] ]_vars

\* C36: cancelMatchmaking touches waiting state only: no step of a cancel call
\* changes a session, adds to the queue or removes another user's entry from
\* it, or changes an index entry that points to an Active session.
C36_CancelFrame ==
    [][ \A p \in Procs :
          (h[p].op = "cancel" /\ h'[p] # h[p])
          => /\ sessions' = sessions
             /\ \A v \in Users \ {h[p].user} : Count(queue', v) = Count(queue, v)
             /\ Count(queue', h[p].user) <= Count(queue, h[p].user)
             /\ \A v \in Users :
                   HasLiveEntry(v) => userSession'[v] = userSession[v] ]_vars

\* C37: the outcome of a room is recorded to the statistics store at most once
\* and with a single winner: with one room and empty documents at the start, no
\* player's document ever counts more than one game, and the wins recorded over
\* all documents never exceed one.
C37_OutcomeOnce ==
    /\ \A u \in Users : stats[u].gamesPlayed <= 1
    /\ \A u, v \in Users : u # v => stats[u].wins + stats[v].wins <= 1

\* C38: whenever no handler is in the middle of an operation, a cleanup timer
\* is held for a room if and only if a residency entry exists for that room:
\* the two in-memory maps have the same key set, and no timer that is held has
\* fired already.
C38_TimerIffResidency ==
    Quiescent => /\ DOMAIN playersOnResultScreen = resultScreenTimeouts
                 /\ resultScreenTimeouts \cap timerFired = {}
\* a room has been tracked and reclaimed, and the handlers have returned
C38_Witness ==
    /\ Quiescent
    /\ \E p \in RProcs : rs[p].pc = "done" /\ rs[p].answer # "Result screen not found"
    /\ DOMAIN playersOnResultScreen = {}
    /\ DOMAIN inits # {}

=============================================================================
